---- MODULE Spec2Model ----
(***************************************************************************)
(* A model of the construction take-off extractor: the rule-based line     *)
(* classifier and item accumulator (ConstructionParser), the table         *)
(* normalizer (parse_tables) and the hybrid merge of regex items with the  *)
(* items of an external text-understanding call                            *)
(* (ConstructionExtractionStrategy).                                       *)
(*                                                                         *)
(* Text is modelled as TLA+ strings, character by character.  The regular  *)
(* expressions of the source are kept as terms (Str, Cls, Cat, Alt, Rep,   *)
(* Grp, ...) and run by a backtracking matcher, Match, that yields the     *)
(* matches in the priority order of Python's re module, so that search,    *)
(* finditer and the captured groups are computed, not assumed.             *)
(*                                                                         *)
(* Two characters of the source are outside ASCII.  They are written here  *)
(* with ASCII stand-ins that occur nowhere else in the patterns or in the  *)
(* modelled text:  "~" is the diameter glyph U+00F8 (a word character, as  *)
(* in Python) and "^" is the en dash U+2013.                               *)
(***************************************************************************)
EXTENDS Integers, Sequences, FiniteSets, TLC

(***************************************************************************)
(* Characters and Python's str methods                                     *)
(***************************************************************************)
UpperChars == "ABCDEFGHIJKLMNOPQRSTUVWXYZ"
LowerChars == "abcdefghijklmnopqrstuvwxyz"
DigitChars == "0123456789"
Ch(s, i) == SubSeq(s, i, i)
CharsOf(s) == {Ch(s, i) : i \in 1..Len(s)}
Upper == CharsOf(UpperChars)
Lower == CharsOf(LowerChars)
Digit == CharsOf(DigitChars)
Space == {" ", "\t"}
Word == Upper \cup Lower \cup Digit \cup {"_", "~"}
IndexIn(c, s) == CHOOSE k \in 1..Len(s) : Ch(s, k) = c
ToLowerCh == [c \in Upper |-> Ch(LowerChars, IndexIn(c, UpperChars))]
ToUpperCh == [c \in Lower |-> Ch(UpperChars, IndexIn(c, LowerChars))]
LowerCh(c) == IF c \in Upper THEN ToLowerCh[c] ELSE c
UpperCh(c) == IF c \in Lower THEN ToUpperCh[c] ELSE c

\* The concatenation of the strings seq[lo..hi], by halves
RECURSIVE concat(_, _, _)
concat(seq, lo, hi) ==
  IF lo > hi THEN ""
  ELSE IF lo = hi THEN seq[lo]
  ELSE concat(seq, lo, (lo + hi) \div 2) \o concat(seq, (lo + hi) \div 2 + 1, hi)
\* str.lower()
lower(s) == concat([i \in 1..Len(s) |-> LowerCh(Ch(s, i))], 1, Len(s))
\* str.upper()
upper(s) == concat([i \in 1..Len(s) |-> UpperCh(Ch(s, i))], 1, Len(s))
\* The first and the last position of s that is not whitespace (0 for none)
first_nonspace(s) ==
  IF \A i \in 1..Len(s) : Ch(s, i) \in Space THEN 0
  ELSE CHOOSE i \in 1..Len(s) : Ch(s, i) \notin Space /\ \A j \in 1..(i - 1) : Ch(s, j) \in Space
last_nonspace(s) ==
  IF \A i \in 1..Len(s) : Ch(s, i) \in Space THEN 0
  ELSE CHOOSE i \in 1..Len(s) : Ch(s, i) \notin Space /\ \A j \in (i + 1)..Len(s) : Ch(s, j) \in Space
\* SubSeq(s, a, b), "" when a is 0
between(s, a, b) == IF a = 0 THEN "" ELSE SubSeq(s, a, b)
lstrip(s) == between(s, first_nonspace(s), Len(s))
rstrip(s) == SubSeq(s, 1, last_nonspace(s))
\* str.strip()
strip(s) == between(s, first_nonspace(s), last_nonspace(s))
\* str.title(): a letter that follows a letter is lower-cased, any other
\* letter is upper-cased.
title(s) ==
  concat([i \in 1..Len(s) |->
            IF i > 1 /\ Ch(s, i - 1) \in Upper \cup Lower THEN LowerCh(Ch(s, i)) ELSE UpperCh(Ch(s, i))],
         1, Len(s))
\* str.split(): the words between runs of whitespace
word_starts(s) == {i \in 1..Len(s) : Ch(s, i) \notin Space /\ (i = 1 \/ Ch(s, i - 1) \in Space)}
word_ends(s) == {i \in 1..Len(s) : Ch(s, i) \notin Space /\ (i = Len(s) \/ Ch(s, i + 1) \in Space)}
nth(set, k) == CHOOSE i \in set : Cardinality({j \in set : j <= i}) = k
words_between(s, starts, ends) == [k \in 1..Cardinality(starts) |-> SubSeq(s, nth(starts, k), nth(ends, k))]
split(s) == words_between(s, word_starts(s), word_ends(s))
\* sep.join(words)
join(words, sep) ==
  concat([k \in 1..(2 * Len(words) - 1) |-> IF k % 2 = 1 THEN words[(k + 1) \div 2] ELSE sep], 1, 2 * Len(words) - 1)
startswith(s, p) == Len(p) <= Len(s) /\ SubSeq(s, 1, Len(p)) = p
endswith(s, p) == Len(p) <= Len(s) /\ SubSeq(s, Len(s) - Len(p) + 1, Len(s)) = p
\* sub in s
contains(s, sub) == \E i \in 1..(Len(s) - Len(sub) + 1) : SubSeq(s, i, i + Len(sub) - 1) = sub
DigitVal(c) == IndexIn(c, DigitChars) - 1
\* int(s) of a string of digits
RECURSIVE int_of(_)
int_of(s) == IF s = "" THEN 0 ELSE 10 * int_of(SubSeq(s, 1, Len(s) - 1)) + DigitVal(Ch(s, Len(s)))
RECURSIVE str_of_nat(_)
str_of_nat(n) == IF n < 10 THEN Ch(DigitChars, n + 1) ELSE str_of_nat(n \div 10) \o Ch(DigitChars, (n % 10) + 1)
\* str(n) of an int
str_of_int(n) == IF n < 0 THEN "-" \o str_of_nat(-n) ELSE str_of_nat(n)

(***************************************************************************)
(* Python values: None, a str, an int, or a key that the dict lacks        *)
(***************************************************************************)
None == [t |-> "none", s |-> "", n |-> 0]
S(s) == [t |-> "str", s |-> s, n |-> 0]
I(n) == [t |-> "int", s |-> "", n |-> n]
Missing == [t |-> "missing", s |-> "", n |-> 0]
\* bool(v)
Truthy(v) == (v.t = "str" /\ v.s # "") \/ (v.t = "int" /\ v.n # 0)
\* dict.get(key): None for a key the dict lacks
Get(d, k) == IF d[k].t = "missing" THEN None ELSE d[k]
\* str(v)
str(v) == CASE v.t = "str" -> v.s [] v.t = "int" -> str_of_int(v.n) [] OTHER -> "None"

(***************************************************************************)
(* Regular expressions (Python's re)                                       *)
(***************************************************************************)
Str(s) == [op |-> "str", s |-> s]
Cls(set) == [op |-> "cls", set |-> set, neg |-> FALSE]
NCls(set) == [op |-> "cls", set |-> set, neg |-> TRUE]
Cat(rs) == [op |-> "cat", rs |-> rs]
Alt(rs) == [op |-> "alt", rs |-> rs]
\* r{lo,hi}, r{lo,} and the lazy r{lo,}?
Rep(r, lo, hi) == [op |-> "rep", r |-> r, lo |-> lo, hi |-> hi, unbounded |-> FALSE, lazy |-> FALSE]
RepN(r, lo) == [op |-> "rep", r |-> r, lo |-> lo, hi |-> lo, unbounded |-> TRUE, lazy |-> FALSE]
RepLazyN(r, lo) == [op |-> "rep", r |-> r, lo |-> lo, hi |-> lo, unbounded |-> TRUE, lazy |-> TRUE]
Grp(n, r) == [op |-> "grp", n |-> n, r |-> r]
Bol == [op |-> "bol"]
Eol == [op |-> "eol"]
WordB == [op |-> "wordb"]
NotAhead(r) == [op |-> "look", r |-> r, neg |-> TRUE, behind |-> FALSE]
NotBehind(r) == [op |-> "look", r |-> r, neg |-> TRUE, behind |-> TRUE]

\* The groups of a match: <<first, past-the-end>> positions, <<0, 0>> when
\* the group took no part.
NoGroups == << <<0, 0>>, <<0, 0>>, <<0, 0>>, <<0, 0>> >>
EqCh(a, b, ic) == IF ic THEN LowerCh(a) = LowerCh(b) ELSE a = b
InCls(c, set, ic) == IF ic THEN LowerCh(c) \in set \/ UpperCh(c) \in set ELSE c \in set
IsWordAt(s, i) == i >= 1 /\ i <= Len(s) /\ Ch(s, i) \in Word

\* Match(r, s, i, g, ic): the ways r matches s from position i on, in the
\* order a backtracking matcher tries them, each with the position after
\* the match and the groups; ic is re.IGNORECASE.  Sequences, alternatives
\* and the positions of a search are split by halves, which keeps the order.
RECURSIVE Match(_, _, _, _, _), MatchCat(_, _, _, _, _, _, _), MatchCatOver(_, _, _, _, _, _, _, _), MatchAlt(_, _, _, _, _, _, _), MatchRep(_, _, _, _, _, _), MatchRepOver(_, _, _, _, _, _, _, _)
\* The end of the run of characters of a class that starts at i
RunEnd(r, s, i, ic) ==
  CHOOSE k \in i..(Len(s) + 1) :
    /\ k = Len(s) + 1 \/ (InCls(Ch(s, k), r.set, ic) = r.neg)
    /\ \A j \in i..(k - 1) : InCls(Ch(s, j), r.set, ic) # r.neg
\* A repeated class with a run of the given length at i: the longest
\* repetition first (the shortest first when lazy)
Runs(r, run, i, g) ==
  IF run < r.lo THEN <<>>
  ELSE [j \in 1..(run - r.lo + 1) |-> [p |-> IF r.lazy THEN i + r.lo + j - 1 ELSE i + run - j + 1, g |-> g]]
AtMost(a, b) == IF a <= b THEN a ELSE b
MatchRun(r, s, i, g, ic) ==
  Runs(r, IF r.unbounded THEN RunEnd(r.r, s, i, ic) - i ELSE AtMost(RunEnd(r.r, s, i, ic) - i, r.hi), i, g)
\* The matches ms of a group's body, with the group set
Grouped(ms, n, i) == [j \in 1..Len(ms) |-> [p |-> ms[j].p, g |-> [ms[j].g EXCEPT ![n] = <<i, ms[j].p>>]]]
\* Some match among ms ends at i
EndsAt(ms, i) == \E k \in DOMAIN ms : ms[k].p = i
Match(r, s, i, g, ic) ==
  CASE r.op = "str" ->
         IF i + Len(r.s) - 1 <= Len(s) /\ \A k \in 1..Len(r.s) : EqCh(Ch(s, i + k - 1), Ch(r.s, k), ic)
         THEN <<[p |-> i + Len(r.s), g |-> g]>> ELSE <<>>
    [] r.op = "cls" ->
         IF i <= Len(s) /\ (InCls(Ch(s, i), r.set, ic) # r.neg)
         THEN <<[p |-> i + 1, g |-> g]>> ELSE <<>>
    [] r.op = "cat" -> MatchCat(r.rs, 1, Len(r.rs), s, i, g, ic)
    [] r.op = "alt" -> MatchAlt(r.rs, 1, Len(r.rs), s, i, g, ic)
    [] r.op = "rep" -> IF r.r.op = "cls" THEN MatchRun(r, s, i, g, ic) ELSE MatchRep(r, 0, s, i, g, ic)
    [] r.op = "grp" -> Grouped(Match(r.r, s, i, g, ic), r.n, i)
    [] r.op = "bol" -> IF i = 1 THEN <<[p |-> i, g |-> g]>> ELSE <<>>
    [] r.op = "eol" -> IF i = Len(s) + 1 THEN <<[p |-> i, g |-> g]>> ELSE <<>>
    [] r.op = "wordb" -> IF IsWordAt(s, i - 1) # IsWordAt(s, i) THEN <<[p |-> i, g |-> g]>> ELSE <<>>
    [] r.op = "look" ->
         IF (IF r.behind THEN \E j \in 1..i : EndsAt(Match(r.r, s, j, g, ic), i)
             ELSE Match(r.r, s, i, g, ic) # <<>>) # r.neg
         THEN <<[p |-> i, g |-> g]>> ELSE <<>>
\* rs[lo..hi] one after the other
MatchCat(rs, lo, hi, s, i, g, ic) ==
  IF lo > hi THEN <<[p |-> i, g |-> g]>>
  ELSE IF lo = hi THEN Match(rs[lo], s, i, g, ic)
  ELSE MatchCatOver(MatchCat(rs, lo, (lo + hi) \div 2, s, i, g, ic), 1, 0, rs, (lo + hi) \div 2 + 1, hi, s, ic)
\* rs[lo..hi] after each of the matches ms[a..b] (b = 0 stands for Len(ms))
MatchCatOver(ms, a, b, rs, lo, hi, s, ic) ==
  IF b = 0 THEN (IF ms = <<>> THEN <<>> ELSE MatchCatOver(ms, 1, Len(ms), rs, lo, hi, s, ic))
  ELSE IF a = b THEN MatchCat(rs, lo, hi, s, ms[a].p, ms[a].g, ic)
  ELSE MatchCatOver(ms, a, (a + b) \div 2, rs, lo, hi, s, ic) \o MatchCatOver(ms, (a + b) \div 2 + 1, b, rs, lo, hi, s, ic)
\* one of rs[lo..hi], the earlier alternative first
MatchAlt(rs, lo, hi, s, i, g, ic) ==
  IF lo = hi THEN Match(rs[lo], s, i, g, ic)
  ELSE MatchAlt(rs, lo, (lo + hi) \div 2, s, i, g, ic) \o MatchAlt(rs, (lo + hi) \div 2 + 1, hi, s, i, g, ic)
\* r.r repeated, n repetitions done; a repetition that matches the empty
\* string is not repeated
InOrder(lazy, more, stop) == IF lazy THEN stop \o more ELSE more \o stop
MatchRep(r, n, s, i, g, ic) ==
  InOrder(r.lazy,
          IF r.unbounded \/ n < r.hi THEN MatchRepOver(Match(r.r, s, i, g, ic), 1, 0, r, n, s, i, ic) ELSE <<>>,
          IF n >= r.lo THEN <<[p |-> i, g |-> g]>> ELSE <<>>)
MatchRepOver(ms, a, b, r, n, s, i, ic) ==
  IF b = 0 THEN (IF ms = <<>> THEN <<>> ELSE MatchRepOver(ms, 1, Len(ms), r, n, s, i, ic))
  ELSE IF a = b THEN (IF ms[a].p = i THEN <<>> ELSE MatchRep(r, n + 1, s, ms[a].p, ms[a].g, ic))
  ELSE MatchRepOver(ms, a, (a + b) \div 2, r, n, s, i, ic) \o MatchRepOver(ms, (a + b) \div 2 + 1, b, r, n, s, i, ic)

\* The number of groups of a pattern: len(match.groups())
Larger(a, b) == IF a > b THEN a ELSE b
RECURSIVE ngroups(_), ngroups_of(_, _)
ngroups(r) ==
  CASE r.op = "grp" -> Larger(ngroups(r.r), r.n)
    [] r.op \in {"cat", "alt"} -> ngroups_of(r.rs, 1)
    [] r.op \in {"rep", "look"} -> ngroups(r.r)
    [] OTHER -> 0
ngroups_of(rs, k) ==
  IF k > Len(rs) THEN 0 ELSE Larger(ngroups(rs[k]), ngroups_of(rs, k + 1))

NoMatch == [ok |-> FALSE, b |-> 0, e |-> 0, g |-> NoGroups]
\* The first of the matches ms found at position i, as a match object
Found(ms, i) == IF ms # <<>> THEN [ok |-> TRUE, b |-> i, e |-> ms[1].p, g |-> ms[1].g] ELSE NoMatch
\* a if it is a match, else b
OrElse(a, b) == IF a.ok THEN a ELSE b
\* re.search over the start positions lo..hi: the leftmost match, the
\* first in priority
RECURSIVE search_range(_, _, _, _, _), finditer_from(_, _, _, _)
search_range(r, s, lo, hi, ic) ==
  IF lo = hi THEN Found(Match(r, s, lo, NoGroups, ic), lo)
  ELSE OrElse(search_range(r, s, lo, (lo + hi) \div 2, ic), search_range(r, s, (lo + hi) \div 2 + 1, hi, ic))
search_from(r, s, i, ic) == IF i > Len(s) + 1 THEN NoMatch ELSE search_range(r, s, i, Len(s) + 1, ic)
\* re.search(pattern, s, re.IGNORECASE if ic)
search(r, s, ic) == search_from(r, s, 1, ic)
\* re.match(pattern, s): a match at the start of s
match(r, s, ic) == Found(Match(r, s, 1, NoGroups, ic), 1)
\* re.finditer: the successive non-overlapping matches, m being the first
MatchesFrom(m, r, s, ic) ==
  IF ~m.ok THEN <<>>
  ELSE <<m>> \o finditer_from(r, s, IF m.e = m.b THEN m.e + 1 ELSE m.e, ic)
finditer_from(r, s, i, ic) == MatchesFrom(search_from(r, s, i, ic), r, s, ic)
finditer(r, s, ic) == finditer_from(r, s, 1, ic)
\* match.group(0) and match.group(n) ("" for a group that took no part,
\* which the code treats as it treats None)
group0(m, s) == SubSeq(s, m.b, m.e - 1)
group(m, s, n) == IF m.g[n] = <<0, 0>> THEN "" ELSE SubSeq(s, m.g[n][1], m.g[n][2] - 1)
\* match.groups(), the groups that are not empty, in order
RECURSIVE groups_from(_, _, _, _)
groups_from(m, s, n, last) ==
  IF n > last THEN <<>>
  ELSE (IF group(m, s, n) = "" THEN <<>> ELSE <<group(m, s, n)>>) \o groups_from(m, s, n + 1, last)
nonempty_groups(r, m, s) == groups_from(m, s, 1, ngroups(r))

(***************************************************************************)
(* The pattern catalog of ConstructionParser.__init__; every list is used  *)
(* with re.IGNORECASE.  Each term follows the pattern quoted above it.     *)
(***************************************************************************)
exclude_patterns ==
  << (* \b(prohibited|copyright|reserved|confidential|proprietary)\b *)
     Cat(<<WordB, Grp(1, Alt(<<Str("prohibited"), Str("copyright"), Str("reserved"), Str("confidential"), Str("proprietary")>>)), WordB>>),
     (* \b(use\s+in\s+whole|in\s+part|strictly\s+prohibited)\b *)
     Cat(<<WordB, Grp(1, Alt(<<Cat(<<Str("use"), RepN(Cls(Space), 1), Str("in"), RepN(Cls(Space), 1), Str("whole")>>), Cat(<<Str("in"), RepN(Cls(Space), 1), Str("part")>>), Cat(<<Str("strictly"), RepN(Cls(Space), 1), Str("prohibited")>>)>>)), WordB>>),
     (* \b(all\s+rights\s+reserved|page\s+\d+|document\s+control)\b *)
     Cat(<<WordB, Grp(1, Alt(<<Cat(<<Str("all"), RepN(Cls(Space), 1), Str("rights"), RepN(Cls(Space), 1), Str("reserved")>>), Cat(<<Str("page"), RepN(Cls(Space), 1), RepN(Cls(Digit), 1)>>), Cat(<<Str("document"), RepN(Cls(Space), 1), Str("control")>>)>>)), WordB>>),
     (* \b(revision|date|prepared\s+by|approved\s+by)\b *)
     Cat(<<WordB, Grp(1, Alt(<<Str("revision"), Str("date"), Cat(<<Str("prepared"), RepN(Cls(Space), 1), Str("by")>>), Cat(<<Str("approved"), RepN(Cls(Space), 1), Str("by")>>)>>)), WordB>>),
     (* ^[A-Z\s]{20,}$ *)
     Cat(<<Bol, RepN(Cls(Upper \cup Space), 20), Eol>>),
     (* ^\d+$ *)
     Cat(<<Bol, RepN(Cls(Digit), 1), Eol>>),
     (* ^[^\w\s]+$ *)
     Cat(<<Bol, RepN(NCls(Word \cup Space), 1), Eol>>),
     (* ^\s*(up\s+to|see\s+|refer\s+to|see\s+page|refer\s+page|see\s+drawing|refer\s+drawing|see\s+spec|refer\s+spec)\b *)
     Cat(<<Bol, RepN(Cls(Space), 0), Grp(1, Alt(<<Cat(<<Str("up"), RepN(Cls(Space), 1), Str("to")>>), Cat(<<Str("see"), RepN(Cls(Space), 1)>>), Cat(<<Str("refer"), RepN(Cls(Space), 1), Str("to")>>), Cat(<<Str("see"), RepN(Cls(Space), 1), Str("page")>>), Cat(<<Str("refer"), RepN(Cls(Space), 1), Str("page")>>), Cat(<<Str("see"), RepN(Cls(Space), 1), Str("drawing")>>), Cat(<<Str("refer"), RepN(Cls(Space), 1), Str("drawing")>>), Cat(<<Str("see"), RepN(Cls(Space), 1), Str("spec")>>), Cat(<<Str("refer"), RepN(Cls(Space), 1), Str("spec")>>)>>)), WordB>>),
     (* ^\s*(note:|notice:|warning:|caution:)\b *)
     Cat(<<Bol, RepN(Cls(Space), 0), Grp(1, Alt(<<Str("note:"), Str("notice:"), Str("warning:"), Str("caution:")>>)), WordB>>),
     (* ^\s*(see|refer|use|install|mount|connect)\s+[A-Z0-9\-]+ *)
     Cat(<<Bol, RepN(Cls(Space), 0), Grp(1, Alt(<<Str("see"), Str("refer"), Str("use"), Str("install"), Str("mount"), Str("connect")>>)), RepN(Cls(Space), 1), RepN(Cls(Upper \cup Digit \cup {"-"}), 1)>>) >>

fixture_patterns ==
  << (* \b(pipe|fitting|duct|conduit|fixture|valve|faucet|sink|toilet|shower|bathtub|drain|vent|elbow|tee|coupling|reducer|adapter|cap|plug|flange|gasket|hanger|bracket|mount)\b *)
     Cat(<<WordB, Grp(1, Alt(<<Str("pipe"), Str("fitting"), Str("duct"), Str("conduit"), Str("fixture"), Str("valve"), Str("faucet"), Str("sink"), Str("toilet"), Str("shower"), Str("bathtub"), Str("drain"), Str("vent"), Str("elbow"), Str("tee"), Str("coupling"), Str("reducer"), Str("adapter"), Str("cap"), Str("plug"), Str("flange"), Str("gasket"), Str("hanger"), Str("bracket"), Str("mount")>>)), WordB>>),
     (* \b(pump|circulating\s+pump|booster\s+pump|centrifugal\s+pump|pump\s+package)\b *)
     Cat(<<WordB, Grp(1, Alt(<<Str("pump"), Cat(<<Str("circulating"), RepN(Cls(Space), 1), Str("pump")>>), Cat(<<Str("booster"), RepN(Cls(Space), 1), Str("pump")>>), Cat(<<Str("centrifugal"), RepN(Cls(Space), 1), Str("pump")>>), Cat(<<Str("pump"), RepN(Cls(Space), 1), Str("package")>>)>>)), WordB>>),
     (* \b(equipment|boiler|heater|tower|cooling\s+tower|tank|reservoir|vessel|chiller)\b *)
     Cat(<<WordB, Grp(1, Alt(<<Str("equipment"), Str("boiler"), Str("heater"), Str("tower"), Cat(<<Str("cooling"), RepN(Cls(Space), 1), Str("tower")>>), Str("tank"), Str("reservoir"), Str("vessel"), Str("chiller")>>)), WordB>>),
     (* \b(station|wash\s+station|eye\s+wash|safety\s+station|emergency\s+station)\b *)
     Cat(<<WordB, Grp(1, Alt(<<Str("station"), Cat(<<Str("wash"), RepN(Cls(Space), 1), Str("station")>>), Cat(<<Str("eye"), RepN(Cls(Space), 1), Str("wash")>>), Cat(<<Str("safety"), RepN(Cls(Space), 1), Str("station")>>), Cat(<<Str("emergency"), RepN(Cls(Space), 1), Str("station")>>)>>)), WordB>>),
     (* \b(connection|fixture\s+connection|piping\s+connection|cooling\s+connection)\b *)
     Cat(<<WordB, Grp(1, Alt(<<Str("connection"), Cat(<<Str("fixture"), RepN(Cls(Space), 1), Str("connection")>>), Cat(<<Str("piping"), RepN(Cls(Space), 1), Str("connection")>>), Cat(<<Str("cooling"), RepN(Cls(Space), 1), Str("connection")>>)>>)), WordB>>),
     (* \b(package|valve\s+package|equipment\s+package|fixture\s+package)\b *)
     Cat(<<WordB, Grp(1, Alt(<<Str("package"), Cat(<<Str("valve"), RepN(Cls(Space), 1), Str("package")>>), Cat(<<Str("equipment"), RepN(Cls(Space), 1), Str("package")>>), Cat(<<Str("fixture"), RepN(Cls(Space), 1), Str("package")>>)>>)), WordB>>),
     (* \b(shop\s+fixture|repair\s+shop|body\s+shop|paint\s+booth|booth\s+equipment)\b *)
     Cat(<<WordB, Grp(1, Alt(<<Cat(<<Str("shop"), RepN(Cls(Space), 1), Str("fixture")>>), Cat(<<Str("repair"), RepN(Cls(Space), 1), Str("shop")>>), Cat(<<Str("body"), RepN(Cls(Space), 1), Str("shop")>>), Cat(<<Str("paint"), RepN(Cls(Space), 1), Str("booth")>>), Cat(<<Str("booth"), RepN(Cls(Space), 1), Str("equipment")>>)>>)), WordB>>),
     (* \b(fixtures|body\s+repair|paint\s+equipment|mechanical\s+equipment)\b *)
     Cat(<<WordB, Grp(1, Alt(<<Str("fixtures"), Cat(<<Str("body"), RepN(Cls(Space), 1), Str("repair")>>), Cat(<<Str("paint"), RepN(Cls(Space), 1), Str("equipment")>>), Cat(<<Str("mechanical"), RepN(Cls(Space), 1), Str("equipment")>>)>>)), WordB>>),
     (* \b(ABS|PVC|CPVC|PEX|copper|steel|stainless|galvanized|cast\s+iron|brass|bronze)\b *)
     Cat(<<WordB, Grp(1, Alt(<<Str("ABS"), Str("PVC"), Str("CPVC"), Str("PEX"), Str("copper"), Str("steel"), Str("stainless"), Str("galvanized"), Cat(<<Str("cast"), RepN(Cls(Space), 1), Str("iron")>>), Str("brass"), Str("bronze")>>)), WordB>>),
     (* \b(item|component|part|unit|assembly|system)\b *)
     Cat(<<WordB, Grp(1, Alt(<<Str("item"), Str("component"), Str("part"), Str("unit"), Str("assembly"), Str("system")>>)), WordB>>) >>

quantity_patterns ==
  << (* \b(?:qty|quantity|qty\.)[:\s]+(\d+(?:\.\d+)?)\b *)
     Cat(<<WordB, Str("q"), Alt(<<Str("ty"), Str("uantity"), Str("ty.")>>), RepN(Cls(Space \cup {":"}), 1), Grp(1, Cat(<<RepN(Cls(Digit), 1), Rep(Cat(<<Str("."), RepN(Cls(Digit), 1)>>), 0, 1)>>)), WordB>>),
     (* \b(?:qty|quantity)[:\s]+(\d+(?:\.\d+)?)\s*(?:ea|each|pcs|pieces|unit|units)?\b *)
     Cat(<<WordB, Str("q"), Alt(<<Str("ty"), Str("uantity")>>), RepN(Cls(Space \cup {":"}), 1), Grp(1, Cat(<<RepN(Cls(Digit), 1), Rep(Cat(<<Str("."), RepN(Cls(Digit), 1)>>), 0, 1)>>)), RepN(Cls(Space), 0), Rep(Alt(<<Str("ea"), Str("each"), Str("pcs"), Str("pieces"), Str("unit"), Str("units")>>), 0, 1), WordB>>),
     (* \b(\d+)\s*(?:ea|each|pcs|pieces|pc|unit|units)\b *)
     Cat(<<WordB, Grp(1, RepN(Cls(Digit), 1)), RepN(Cls(Space), 0), Alt(<<Str("ea"), Str("each"), Str("pcs"), Str("pieces"), Str("pc"), Str("unit"), Str("units")>>), WordB>>),
     (* \b(\d+)\s*(?:lf|linear feet|ft|feet|sq ft|sq\.?\s*ft\.?|square feet)\b *)
     Cat(<<WordB, Grp(1, RepN(Cls(Digit), 1)), RepN(Cls(Space), 0), Alt(<<Str("lf"), Str("linear feet"), Str("ft"), Str("feet"), Str("sq ft"), Cat(<<Str("sq"), Rep(Str("."), 0, 1), RepN(Cls(Space), 0), Str("ft"), Rep(Str("."), 0, 1)>>), Str("square feet")>>), WordB>>),
     (* (?<!-)(?<![A-Z])\b(\d+\.\d+)(?:\s*,\s*\d+(?:\.\d+)?)*\b(?![-A-Z]) *)
     Cat(<<NotBehind(Str("-")), NotBehind(Cls(Upper)), WordB, Grp(1, Cat(<<RepN(Cls(Digit), 1), Str("."), RepN(Cls(Digit), 1)>>)), RepN(Cat(<<RepN(Cls(Space), 0), Str(","), RepN(Cls(Space), 0), RepN(Cls(Digit), 1), Rep(Cat(<<Str("."), RepN(Cls(Digit), 1)>>), 0, 1)>>), 0), WordB, NotAhead(Cls(Upper \cup {"-"}))>>),
     (* \((\d+)\)(?:\s|$) *)
     Cat(<<Str("("), Grp(1, RepN(Cls(Digit), 1)), Str(")"), Alt(<<Cls(Space), Eol>>)>>),
     (* \b[A-Z][A-Za-z\s]+\s*\((\d+)\) *)
     Cat(<<WordB, Cls(Upper), RepN(Cls(Upper \cup Lower \cup Space), 1), RepN(Cls(Space), 0), Str("("), Grp(1, RepN(Cls(Digit), 1)), Str(")")>>),
     (* (?:^|\s|,|:)\s*(\d{1,3})\s*(?:ea|each|pcs|pieces|qty|quantity|unit|units|$) *)
     Cat(<<Alt(<<Bol, Cls(Space), Str(","), Str(":")>>), RepN(Cls(Space), 0), Grp(1, Rep(Cls(Digit), 1, 3)), RepN(Cls(Space), 0), Alt(<<Str("ea"), Str("each"), Str("pcs"), Str("pieces"), Str("qty"), Str("quantity"), Str("unit"), Str("units"), Eol>>)>>) >>

model_patterns ==
  << (* \b(model|part\s*#|part\s*number|pn|sku|cat\s*#|catalog\s*#|item\s*#)[:\s]+([A-Z0-9\-\.]+) *)
     Cat(<<WordB, Grp(1, Alt(<<Str("model"), Cat(<<Str("part"), RepN(Cls(Space), 0), Str("#")>>), Cat(<<Str("part"), RepN(Cls(Space), 0), Str("number")>>), Str("pn"), Str("sku"), Cat(<<Str("cat"), RepN(Cls(Space), 0), Str("#")>>), Cat(<<Str("catalog"), RepN(Cls(Space), 0), Str("#")>>), Cat(<<Str("item"), RepN(Cls(Space), 0), Str("#")>>)>>)), RepN(Cls(Space \cup {":"}), 1), Grp(2, RepN(Cls(Upper \cup Digit \cup {"-","."}), 1))>>),
     (* \b([A-Z]{2,}-\d+[A-Z0-9\-]* )\b *)
     Cat(<<WordB, Grp(1, Cat(<<RepN(Cls(Upper), 2), Str("-"), RepN(Cls(Digit), 1), RepN(Cls(Upper \cup Digit \cup {"-"}), 0)>>)), WordB>>),
     (* \b([A-Z]{1,3}\d{2,}[A-Z0-9]* )\b *)
     Cat(<<WordB, Grp(1, Cat(<<Rep(Cls(Upper), 1, 3), RepN(Cls(Digit), 2), RepN(Cls(Upper \cup Digit), 0)>>)), WordB>>),
     (* \b([A-Z]{2,}\d+[A-Z0-9])\b *)
     Cat(<<WordB, Grp(1, Cat(<<RepN(Cls(Upper), 2), RepN(Cls(Digit), 1), Cls(Upper \cup Digit)>>)), WordB>>) >>

dimension_patterns ==
  << (* \b(\d+)\s*["\']\s*[-^]\s*(\d+)\s*(\d+\/\d+)\s*["\'] *)
     Cat(<<WordB, Grp(1, RepN(Cls(Digit), 1)), RepN(Cls(Space), 0), Cls({"\"","'"}), RepN(Cls(Space), 0), Cls({"-","^"}), RepN(Cls(Space), 0), Grp(2, RepN(Cls(Digit), 1)), RepN(Cls(Space), 0), Grp(3, Cat(<<RepN(Cls(Digit), 1), Str("/"), RepN(Cls(Digit), 1)>>)), RepN(Cls(Space), 0), Cls({"\"","'"})>>),
     (* \b(\d+)\s*["\']\s*[-^]\s*(\d+)\s*["\'] *)
     Cat(<<WordB, Grp(1, RepN(Cls(Digit), 1)), RepN(Cls(Space), 0), Cls({"\"","'"}), RepN(Cls(Space), 0), Cls({"-","^"}), RepN(Cls(Space), 0), Grp(2, RepN(Cls(Digit), 1)), RepN(Cls(Space), 0), Cls({"\"","'"})>>),
     (* \b(\d+)\s*["\']\s+(\d+)\s*(\d+\/\d+)\s*["\'] *)
     Cat(<<WordB, Grp(1, RepN(Cls(Digit), 1)), RepN(Cls(Space), 0), Cls({"\"","'"}), RepN(Cls(Space), 1), Grp(2, RepN(Cls(Digit), 1)), RepN(Cls(Space), 0), Grp(3, Cat(<<RepN(Cls(Digit), 1), Str("/"), RepN(Cls(Digit), 1)>>)), RepN(Cls(Space), 0), Cls({"\"","'"})>>),
     (* \b(\d+)\s*["\']\s+(\d+)\s*["\'] *)
     Cat(<<WordB, Grp(1, RepN(Cls(Digit), 1)), RepN(Cls(Space), 0), Cls({"\"","'"}), RepN(Cls(Space), 1), Grp(2, RepN(Cls(Digit), 1)), RepN(Cls(Space), 0), Cls({"\"","'"})>>),
     (* \b(\d+)\s*["\']\s*[-^]\s*(\d+)\s*(\d+\/\d+)\b *)
     Cat(<<WordB, Grp(1, RepN(Cls(Digit), 1)), RepN(Cls(Space), 0), Cls({"\"","'"}), RepN(Cls(Space), 0), Cls({"-","^"}), RepN(Cls(Space), 0), Grp(2, RepN(Cls(Digit), 1)), RepN(Cls(Space), 0), Grp(3, Cat(<<RepN(Cls(Digit), 1), Str("/"), RepN(Cls(Digit), 1)>>)), WordB>>),
     (* \b(\d+)\s*["\']\s*[-^]?\s*(\d+)\s*(\d+\/\d+)\s*["\']?\b *)
     Cat(<<WordB, Grp(1, RepN(Cls(Digit), 1)), RepN(Cls(Space), 0), Cls({"\"","'"}), RepN(Cls(Space), 0), Rep(Cls({"-","^"}), 0, 1), RepN(Cls(Space), 0), Grp(2, RepN(Cls(Digit), 1)), RepN(Cls(Space), 0), Grp(3, Cat(<<RepN(Cls(Digit), 1), Str("/"), RepN(Cls(Digit), 1)>>)), RepN(Cls(Space), 0), Rep(Cls({"\"","'"}), 0, 1), WordB>>),
     (* \b(\d+[\/\.]\d+|\d+(?:\.\d+)?)\s*["\']?\s*x\s*(\d+[\/\.]\d+|\d+(?:\.\d+)?)\s*["\']?\s*x\s*(\d+[\/\.]\d+|\d+(?:\.\d+)?)\s*["\']?\b *)
     Cat(<<WordB, Grp(1, Alt(<<Cat(<<RepN(Cls(Digit), 1), Cls({"/","."}), RepN(Cls(Digit), 1)>>), Cat(<<RepN(Cls(Digit), 1), Rep(Cat(<<Str("."), RepN(Cls(Digit), 1)>>), 0, 1)>>)>>)), RepN(Cls(Space), 0), Rep(Cls({"\"","'"}), 0, 1), RepN(Cls(Space), 0), Str("x"), RepN(Cls(Space), 0), Grp(2, Alt(<<Cat(<<RepN(Cls(Digit), 1), Cls({"/","."}), RepN(Cls(Digit), 1)>>), Cat(<<RepN(Cls(Digit), 1), Rep(Cat(<<Str("."), RepN(Cls(Digit), 1)>>), 0, 1)>>)>>)), RepN(Cls(Space), 0), Rep(Cls({"\"","'"}), 0, 1), RepN(Cls(Space), 0), Str("x"), RepN(Cls(Space), 0), Grp(3, Alt(<<Cat(<<RepN(Cls(Digit), 1), Cls({"/","."}), RepN(Cls(Digit), 1)>>), Cat(<<RepN(Cls(Digit), 1), Rep(Cat(<<Str("."), RepN(Cls(Digit), 1)>>), 0, 1)>>)>>)), RepN(Cls(Space), 0), Rep(Cls({"\"","'"}), 0, 1), WordB>>),
     (* \b(\d+[\/\.]\d+|\d+(?:\.\d+)?)\s*["\']?\s*x\s*(\d+[\/\.]\d+|\d+(?:\.\d+)?)\s*["\']?\b *)
     Cat(<<WordB, Grp(1, Alt(<<Cat(<<RepN(Cls(Digit), 1), Cls({"/","."}), RepN(Cls(Digit), 1)>>), Cat(<<RepN(Cls(Digit), 1), Rep(Cat(<<Str("."), RepN(Cls(Digit), 1)>>), 0, 1)>>)>>)), RepN(Cls(Space), 0), Rep(Cls({"\"","'"}), 0, 1), RepN(Cls(Space), 0), Str("x"), RepN(Cls(Space), 0), Grp(2, Alt(<<Cat(<<RepN(Cls(Digit), 1), Cls({"/","."}), RepN(Cls(Digit), 1)>>), Cat(<<RepN(Cls(Digit), 1), Rep(Cat(<<Str("."), RepN(Cls(Digit), 1)>>), 0, 1)>>)>>)), RepN(Cls(Space), 0), Rep(Cls({"\"","'"}), 0, 1), WordB>>),
     (* \b(\d+[\/\.]\d+|\d+(?:\.\d+)?)\s*["\']\s*(?:diameter|dia|OD|ID|D|DIA)\b *)
     Cat(<<WordB, Grp(1, Alt(<<Cat(<<RepN(Cls(Digit), 1), Cls({"/","."}), RepN(Cls(Digit), 1)>>), Cat(<<RepN(Cls(Digit), 1), Rep(Cat(<<Str("."), RepN(Cls(Digit), 1)>>), 0, 1)>>)>>)), RepN(Cls(Space), 0), Cls({"\"","'"}), RepN(Cls(Space), 0), Alt(<<Str("diameter"), Str("dia"), Str("OD"), Str("ID"), Str("D"), Str("DIA")>>), WordB>>),
     (* \b(\d+[\/\.]\d+|\d+(?:\.\d+)?)\s*inch(es)?\s*(?:diameter|dia|OD|ID)\b *)
     Cat(<<WordB, Grp(1, Alt(<<Cat(<<RepN(Cls(Digit), 1), Cls({"/","."}), RepN(Cls(Digit), 1)>>), Cat(<<RepN(Cls(Digit), 1), Rep(Cat(<<Str("."), RepN(Cls(Digit), 1)>>), 0, 1)>>)>>)), RepN(Cls(Space), 0), Str("inch"), Rep(Grp(2, Str("es")), 0, 1), RepN(Cls(Space), 0), Alt(<<Str("diameter"), Str("dia"), Str("OD"), Str("ID")>>), WordB>>),
     (* \b(?:diameter|dia|OD|ID|D|DIA)[\s:]+(\d+[\/\.]\d+|\d+(?:\.\d+)?)\s*["\']?\b *)
     Cat(<<WordB, Alt(<<Str("diameter"), Str("dia"), Str("OD"), Str("ID"), Str("D"), Str("DIA")>>), RepN(Cls(Space \cup {":"}), 1), Grp(1, Alt(<<Cat(<<RepN(Cls(Digit), 1), Cls({"/","."}), RepN(Cls(Digit), 1)>>), Cat(<<RepN(Cls(Digit), 1), Rep(Cat(<<Str("."), RepN(Cls(Digit), 1)>>), 0, 1)>>)>>)), RepN(Cls(Space), 0), Rep(Cls({"\"","'"}), 0, 1), WordB>>),
     (* \b(\d+(?:\.\d+)?)\s*["\'](?!\s*x)(?![A-Z0-9]) *)
     Cat(<<WordB, Grp(1, Cat(<<RepN(Cls(Digit), 1), Rep(Cat(<<Str("."), RepN(Cls(Digit), 1)>>), 0, 1)>>)), RepN(Cls(Space), 0), Cls({"\"","'"}), NotAhead(Cat(<<RepN(Cls(Space), 0), Str("x")>>)), NotAhead(Cls(Upper \cup Digit))>>),
     (* \b(\d+(?:\.\d+)?)\s*(?:inch|inches|in|ft|feet|cm|mm)\b *)
     Cat(<<WordB, Grp(1, Cat(<<RepN(Cls(Digit), 1), Rep(Cat(<<Str("."), RepN(Cls(Digit), 1)>>), 0, 1)>>)), RepN(Cls(Space), 0), Alt(<<Str("inch"), Str("inches"), Str("in"), Str("ft"), Str("feet"), Str("cm"), Str("mm")>>), WordB>>),
     (* \b(\d+\s*[\/\-]\s*\d+\/\d+)\s*["\']\b *)
     Cat(<<WordB, Grp(1, Cat(<<RepN(Cls(Digit), 1), RepN(Cls(Space), 0), Cls({"/","-"}), RepN(Cls(Space), 0), RepN(Cls(Digit), 1), Str("/"), RepN(Cls(Digit), 1)>>)), RepN(Cls(Space), 0), Cls({"\"","'"}), WordB>>),
     (* (\d+\s+\d+\/\d+\s*["\']?\s*~) *)
     Grp(1, Cat(<<RepN(Cls(Digit), 1), RepN(Cls(Space), 1), RepN(Cls(Digit), 1), Str("/"), RepN(Cls(Digit), 1), RepN(Cls(Space), 0), Rep(Cls({"\"","'"}), 0, 1), RepN(Cls(Space), 0), Str("~")>>)),
     (* (\d+[- ]\d+\/\d+\s*["\']?\s*~) *)
     Grp(1, Cat(<<RepN(Cls(Digit), 1), Cls({"-"," "}), RepN(Cls(Digit), 1), Str("/"), RepN(Cls(Digit), 1), RepN(Cls(Space), 0), Rep(Cls({"\"","'"}), 0, 1), RepN(Cls(Space), 0), Str("~")>>)),
     (* (\d+\/\d+\s*["\']?\s*~) *)
     Grp(1, Cat(<<RepN(Cls(Digit), 1), Str("/"), RepN(Cls(Digit), 1), RepN(Cls(Space), 0), Rep(Cls({"\"","'"}), 0, 1), RepN(Cls(Space), 0), Str("~")>>)),
     (* (\d+\s*["\']?\s*~) *)
     Grp(1, Cat(<<RepN(Cls(Digit), 1), RepN(Cls(Space), 0), Rep(Cls({"\"","'"}), 0, 1), RepN(Cls(Space), 0), Str("~")>>)),
     (* (?:diameter|dia|OD|ID|size|dimension)[:\s]+(\d+\/\d+)\s*["\']? *)
     Cat(<<Alt(<<Str("diameter"), Str("dia"), Str("OD"), Str("ID"), Str("size"), Str("dimension")>>), RepN(Cls(Space \cup {":"}), 1), Grp(1, Cat(<<RepN(Cls(Digit), 1), Str("/"), RepN(Cls(Digit), 1)>>)), RepN(Cls(Space), 0), Rep(Cls({"\"","'"}), 0, 1)>>),
     (* (?:\d+\s+)?(\d+\/\d+)\s*["\']\s*(?:diameter|dia|OD|ID|inch|inches) *)
     Cat(<<Rep(Cat(<<RepN(Cls(Digit), 1), RepN(Cls(Space), 1)>>), 0, 1), Grp(1, Cat(<<RepN(Cls(Digit), 1), Str("/"), RepN(Cls(Digit), 1)>>)), RepN(Cls(Space), 0), Cls({"\"","'"}), RepN(Cls(Space), 0), Alt(<<Str("diameter"), Str("dia"), Str("OD"), Str("ID"), Str("inch"), Str("inches")>>)>>),
     (* \b(\d+(?:\.\d+)?)\s*(?:mm|cm|m)\s*x\s*(\d+(?:\.\d+)?)\s*(?:mm|cm|m)\b *)
     Cat(<<WordB, Grp(1, Cat(<<RepN(Cls(Digit), 1), Rep(Cat(<<Str("."), RepN(Cls(Digit), 1)>>), 0, 1)>>)), RepN(Cls(Space), 0), Alt(<<Str("mm"), Str("cm"), Str("m")>>), RepN(Cls(Space), 0), Str("x"), RepN(Cls(Space), 0), Grp(2, Cat(<<RepN(Cls(Digit), 1), Rep(Cat(<<Str("."), RepN(Cls(Digit), 1)>>), 0, 1)>>)), RepN(Cls(Space), 0), Alt(<<Str("mm"), Str("cm"), Str("m")>>), WordB>>) >>

mounting_patterns ==
  << (* \b(wall[-\s]*(?:hung|mount|mounted|mounting))\b *)
     Cat(<<WordB, Grp(1, Cat(<<Str("wall"), RepN(Cls(Space \cup {"-"}), 0), Alt(<<Str("hung"), Str("mount"), Str("mounted"), Str("mounting")>>)>>)), WordB>>),
     (* \b(floor[-\s]*(?:mount|mounted|mounting))\b *)
     Cat(<<WordB, Grp(1, Cat(<<Str("floor"), RepN(Cls(Space \cup {"-"}), 0), Str("mount"), Alt(<<Cat(<<>>), Str("ed"), Str("ing")>>)>>)), WordB>>),
     (* \b(ceiling[-\s]*(?:mount|mounted|mounting))\b *)
     Cat(<<WordB, Grp(1, Cat(<<Str("ceiling"), RepN(Cls(Space \cup {"-"}), 0), Str("mount"), Alt(<<Cat(<<>>), Str("ed"), Str("ing")>>)>>)), WordB>>),
     (* \b(surface[-\s]*(?:mount|mounted|mounting))\b *)
     Cat(<<WordB, Grp(1, Cat(<<Str("surface"), RepN(Cls(Space \cup {"-"}), 0), Str("mount"), Alt(<<Cat(<<>>), Str("ed"), Str("ing")>>)>>)), WordB>>),
     (* \b(recessed|concealed|exposed|flush|flush[-\s]mount|undercounter|countertop|freestanding|portable|stationary|fixed|removable|slip[-\s]on|threaded|welded|bolted|hanging|suspended|ceiling[-\s]hung)\b *)
     Cat(<<WordB, Grp(1, Alt(<<Str("recessed"), Str("concealed"), Str("exposed"), Str("flush"), Cat(<<Str("flush"), Cls(Space \cup {"-"}), Str("mount")>>), Str("undercounter"), Str("countertop"), Str("freestanding"), Str("portable"), Str("stationary"), Str("fixed"), Str("removable"), Cat(<<Str("slip"), Cls(Space \cup {"-"}), Str("on")>>), Str("threaded"), Str("welded"), Str("bolted"), Str("hanging"), Str("suspended"), Cat(<<Str("ceiling"), Cls(Space \cup {"-"}), Str("hung")>>)>>)), WordB>>),
     (* \b(mounting[-\s]type[:\s]+)(wall|floor|ceiling|surface|recessed|exposed)\b *)
     Cat(<<WordB, Grp(1, Cat(<<Str("mounting"), Cls(Space \cup {"-"}), Str("type"), RepN(Cls(Space \cup {":"}), 1)>>)), Grp(2, Alt(<<Str("wall"), Str("floor"), Str("ceiling"), Str("surface"), Str("recessed"), Str("exposed")>>)), WordB>>) >>

spec_patterns ==
  << (* \b(ASTM|ANSI|UL|CSA|ASME|NEMA|NFPA|AWWA|IPC|ISO|DIN|BS)[\s\-]?([A-Z0-9\.\-]+) *)
     Cat(<<WordB, Grp(1, Alt(<<Str("ASTM"), Str("ANSI"), Str("UL"), Str("CSA"), Str("ASME"), Str("NEMA"), Str("NFPA"), Str("AWWA"), Str("IPC"), Str("ISO"), Str("DIN"), Str("BS")>>)), Rep(Cls(Space \cup {"-"}), 0, 1), Grp(2, RepN(Cls(Upper \cup Digit \cup {".","-"}), 1))>>),
     (* \b(grade|class|type|rating)\s+([A-Z0-9]+) *)
     Cat(<<WordB, Grp(1, Alt(<<Str("grade"), Str("class"), Str("type"), Str("rating")>>)), RepN(Cls(Space), 1), Grp(2, RepN(Cls(Upper \cup Digit), 1))>>),
     (* \b(spec[\.:]?\s*#?|specification[:\s]*|ref[\.:]?\s*#?|reference[:\s]* )([A-Z0-9\.\-]+) *)
     Cat(<<WordB, Grp(1, Alt(<<Cat(<<Str("spec"), Rep(Cls({".",":"}), 0, 1), RepN(Cls(Space), 0), Rep(Str("#"), 0, 1)>>), Cat(<<Str("specification"), RepN(Cls(Space \cup {":"}), 0)>>), Cat(<<Str("ref"), Rep(Cls({".",":"}), 0, 1), RepN(Cls(Space), 0), Rep(Str("#"), 0, 1)>>), Cat(<<Str("reference"), RepN(Cls(Space \cup {":"}), 0)>>)>>)), Grp(2, RepN(Cls(Upper \cup Digit \cup {".","-"}), 1))>>),
     (* \b(dwg[\.:]?\s*#?|drawing[:\s]* )([A-Z0-9\.\-]+) *)
     Cat(<<WordB, Grp(1, Cat(<<Str("d"), Alt(<<Cat(<<Str("wg"), Rep(Cls({".",":"}), 0, 1), RepN(Cls(Space), 0), Rep(Str("#"), 0, 1)>>), Cat(<<Str("rawing"), RepN(Cls(Space \cup {":"}), 0)>>)>>)>>)), Grp(2, RepN(Cls(Upper \cup Digit \cup {".","-"}), 1))>>),
     (* \b(\d+\.\d+)(?:\s|$|,|;|:)(?!\s*(?:ea|each|pcs|pieces|qty|quantity)) *)
     Cat(<<WordB, Grp(1, Cat(<<RepN(Cls(Digit), 1), Str("."), RepN(Cls(Digit), 1)>>)), Alt(<<Cls(Space), Eol, Str(","), Str(";"), Str(":")>>), NotAhead(Cat(<<RepN(Cls(Space), 0), Alt(<<Str("ea"), Str("each"), Str("pcs"), Str("pieces"), Str("qty"), Str("quantity")>>)>>))>>),
     (* \b(page\s+#?|pg[\.:]?\s*#?|p[\.:]?\s*#?)(\d+) *)
     Cat(<<WordB, Grp(1, Cat(<<Str("p"), Alt(<<Cat(<<Str("age"), RepN(Cls(Space), 1), Rep(Str("#"), 0, 1)>>), Cat(<<Str("g"), Rep(Cls({".",":"}), 0, 1), RepN(Cls(Space), 0), Rep(Str("#"), 0, 1)>>), Cat(<<Rep(Cls({".",":"}), 0, 1), RepN(Cls(Space), 0), Rep(Str("#"), 0, 1)>>)>>)>>)), Grp(2, RepN(Cls(Digit), 1))>>),
     (* \b(see\s+)?(?:page|pg|p)\.?\s*(\d+) *)
     Cat(<<WordB, Rep(Grp(1, Cat(<<Str("see"), RepN(Cls(Space), 1)>>)), 0, 1), Str("p"), Alt(<<Str("age"), Str("g"), Cat(<<>>)>>), Rep(Str("."), 0, 1), RepN(Cls(Space), 0), Grp(2, RepN(Cls(Digit), 1))>>),
     (* \b(\d+)[\s\-]+(?:page|pg)\b *)
     Cat(<<WordB, Grp(1, RepN(Cls(Digit), 1)), RepN(Cls(Space \cup {"-"}), 1), Str("p"), Alt(<<Str("age"), Str("g")>>), WordB>>) >>

(***************************************************************************)
(* The patterns written inline in _detect_item_line, _enrich_item and      *)
(* parse_tables; used with re.IGNORECASE unless marked case-sensitive.     *)
(***************************************************************************)
\* line 233: ^\s*(up\s+to|see|refer|use|install|mount|connect|note|notice|warning)\s+
action_verb_pattern ==
  Cat(<<Bol, RepN(Cls(Space), 0), Grp(1, Alt(<<Cat(<<Str("up"), RepN(Cls(Space), 1), Str("to")>>), Str("see"), Str("refer"), Str("use"), Str("install"), Str("mount"), Str("connect"), Str("note"), Str("notice"), Str("warning")>>)), RepN(Cls(Space), 1)>>)
\* line 278 (case-sensitive): \b([A-Z][A-Za-z]+(?:\s+[A-Z][A-Za-z]+)+)
capitalized_phrase_pattern ==
  Cat(<<WordB, Grp(1, Cat(<<Cls(Upper), RepN(Cls(Upper \cup Lower), 1), RepN(Cat(<<RepN(Cls(Space), 1), Cls(Upper), RepN(Cls(Upper \cup Lower), 1)>>), 1)>>))>>)
\* lines 284, 606 (case-sensitive): \d+\s*["\']\s*[-^]?\s*\d+
is_dimension_pattern ==
  Cat(<<RepN(Cls(Digit), 1), RepN(Cls(Space), 0), Cls({"\"","'"}), RepN(Cls(Space), 0), Rep(Cls({"-","^"}), 0, 1), RepN(Cls(Space), 0), RepN(Cls(Digit), 1)>>)
\* lines 286, 608: ^[\d\s\'\"\-\/\.]+$
is_numeric_pattern ==
  Cat(<<Bol, RepN(Cls(Digit \cup Space \cup {"'","\"","-","/","."}), 1), Eol>>)
\* line 332: \b(qty|quantity)[:\s]*\d+\.\d+
explicit_decimal_qty_pattern ==
  Cat(<<WordB, Grp(1, Cat(<<Str("q"), Alt(<<Str("ty"), Str("uantity")>>)>>)), RepN(Cls(Space \cup {":"}), 0), RepN(Cls(Digit), 1), Str("."), RepN(Cls(Digit), 1)>>)
\* line 334: \d+\s*["\']|OM-|MAU-|CH\d+|model|part\s*#
dimension_or_model_marker_pattern ==
  Alt(<<Cat(<<RepN(Cls(Digit), 1), RepN(Cls(Space), 0), Cls({"\"","'"})>>), Str("OM-"), Str("MAU-"), Cat(<<Str("CH"), RepN(Cls(Digit), 1)>>), Str("model"), Cat(<<Str("part"), RepN(Cls(Space), 0), Str("#")>>)>>)
\* lines 365, 466, 705: ^\d+$
all_digits_pattern ==
  Cat(<<Bol, RepN(Cls(Digit), 1), Eol>>)
\* lines 370, 393 (case-sensitive): ^[A-Z]\d+$
location_code_pattern ==
  Cat(<<Bol, Cls(Upper), RepN(Cls(Digit), 1), Eol>>)
\* line 376: \b(model|part|pn|sku|cat|item\s*#)
model_label_pattern ==
  Cat(<<WordB, Grp(1, Alt(<<Str("model"), Str("part"), Str("pn"), Str("sku"), Str("cat"), Cat(<<Str("item"), RepN(Cls(Space), 0), Str("#")>>)>>))>>)
\* line 384 (case-sensitive): [A-Z]
has_letter_pattern ==
  Cls(Upper)
\* line 384: \d
has_digit_pattern ==
  Cls(Digit)
\* line 421: [A-Z]{2,}-\d+|[A-Z]{1,3}\d{2,}
has_model_pattern ==
  Alt(<<Cat(<<RepN(Cls(Upper), 2), Str("-"), RepN(Cls(Digit), 1)>>), Cat(<<Rep(Cls(Upper), 1, 3), RepN(Cls(Digit), 2)>>)>>)
\* line 424: (diameter|dia|OD|ID|size|dimension|inch|inches|x\s*\d)
fraction_context_pattern ==
  Grp(1, Alt(<<Str("diameter"), Str("dia"), Str("OD"), Str("ID"), Str("size"), Str("dimension"), Str("inch"), Str("inches"), Cat(<<Str("x"), RepN(Cls(Space), 0), Cls(Digit)>>)>>))
\* line 470: ["\']|inch|inches|in|feet|ft|cm|mm|diameter|dia|~|"|\'|x\s*\d
has_dimension_context_pattern ==
  Alt(<<Cls({"\"","'"}), Str("inch"), Str("inches"), Str("in"), Str("feet"), Str("ft"), Str("cm"), Str("mm"), Str("diameter"), Str("dia"), Str("~"), Str("\""), Str("'"), Cat(<<Str("x"), RepN(Cls(Space), 0), Cls(Digit)>>)>>)
\* line 475: ["\']|~|inch|in|ft|cm|mm
has_units_in_dim_pattern ==
  Alt(<<Cls({"\"","'"}), Str("~"), Str("inch"), Str("in"), Str("ft"), Str("cm"), Str("mm")>>)
\* lines 511, 747: ^\d+\.\d+$
decimal_spec_pattern ==
  Cat(<<Bol, RepN(Cls(Digit), 1), Str("."), RepN(Cls(Digit), 1), Eol>>)
\* line 591: \b(\d+)\s*(ea|each|pcs|pieces|qty|quantity)
unit_quantity_pattern ==
  Cat(<<WordB, Grp(1, RepN(Cls(Digit), 1)), RepN(Cls(Space), 0), Grp(2, Alt(<<Str("ea"), Str("each"), Str("pcs"), Str("pieces"), Str("qty"), Str("quantity")>>))>>)
\* line 708: ["\']|~|inch|inches|in|ft|feet|cm|mm|diameter|dia
enrich_has_units_pattern ==
  Alt(<<Cls({"\"","'"}), Str("~"), Str("inch"), Str("inches"), Str("in"), Str("ft"), Str("feet"), Str("cm"), Str("mm"), Str("diameter"), Str("dia")>>)
\* line 709: (diameter|dia|OD|ID|inch|in|"|\'|~|x\s*\d)
enrich_has_context_pattern ==
  Grp(1, Alt(<<Str("diameter"), Str("dia"), Str("OD"), Str("ID"), Str("inch"), Str("in"), Str("\""), Str("'"), Str("~"), Cat(<<Str("x"), RepN(Cls(Space), 0), Cls(Digit)>>)>>))
\* lines 752, 813: \d+
first_number_pattern ==
  RepN(Cls(Digit), 1)
\* lines 305-308
model_patterns_in_line ==
  << (* [A-Z]{2,}-\d+ *)
     Cat(<<RepN(Cls(Upper), 2), Str("-"), RepN(Cls(Digit), 1)>>),
     (* [A-Z]{1,3}\d{2,} *)
     Cat(<<Rep(Cls(Upper), 1, 3), RepN(Cls(Digit), 2)>>) >>
\* lines 431-447
full_dim_patterns ==
  << (* (\d+\s+\d+\/\d+\s*["\']?\s*~) *)
     Grp(1, Cat(<<RepN(Cls(Digit), 1), RepN(Cls(Space), 1), RepN(Cls(Digit), 1), Str("/"), RepN(Cls(Digit), 1), RepN(Cls(Space), 0), Rep(Cls({"\"","'"}), 0, 1), RepN(Cls(Space), 0), Str("~")>>)),
     (* (\d+[- ]\d+\/\d+\s*["\']?\s*~) *)
     Grp(1, Cat(<<RepN(Cls(Digit), 1), Cls({"-"," "}), RepN(Cls(Digit), 1), Str("/"), RepN(Cls(Digit), 1), RepN(Cls(Space), 0), Rep(Cls({"\"","'"}), 0, 1), RepN(Cls(Space), 0), Str("~")>>)),
     (* (\d+\/\d+\s*["\']?\s*~) *)
     Grp(1, Cat(<<RepN(Cls(Digit), 1), Str("/"), RepN(Cls(Digit), 1), RepN(Cls(Space), 0), Rep(Cls({"\"","'"}), 0, 1), RepN(Cls(Space), 0), Str("~")>>)),
     (* (\d+\s*["\']?\s*~) *)
     Grp(1, Cat(<<RepN(Cls(Digit), 1), RepN(Cls(Space), 0), Rep(Cls({"\"","'"}), 0, 1), RepN(Cls(Space), 0), Str("~")>>)),
     (* (\d+\s*["\']\s*[-^]\s*\d+\s+\d+\/\d+\s*["\']) *)
     Grp(1, Cat(<<RepN(Cls(Digit), 1), RepN(Cls(Space), 0), Cls({"\"","'"}), RepN(Cls(Space), 0), Cls({"-","^"}), RepN(Cls(Space), 0), RepN(Cls(Digit), 1), RepN(Cls(Space), 1), RepN(Cls(Digit), 1), Str("/"), RepN(Cls(Digit), 1), RepN(Cls(Space), 0), Cls({"\"","'"})>>)),
     (* (\d+\s*["\']\s*[-^]\s*\d+\s*["\']) *)
     Grp(1, Cat(<<RepN(Cls(Digit), 1), RepN(Cls(Space), 0), Cls({"\"","'"}), RepN(Cls(Space), 0), Cls({"-","^"}), RepN(Cls(Space), 0), RepN(Cls(Digit), 1), RepN(Cls(Space), 0), Cls({"\"","'"})>>)),
     (* (\d+\s*["\']\s+\d+\s+\d+\/\d+\s*["\']) *)
     Grp(1, Cat(<<RepN(Cls(Digit), 1), RepN(Cls(Space), 0), Cls({"\"","'"}), RepN(Cls(Space), 1), RepN(Cls(Digit), 1), RepN(Cls(Space), 1), RepN(Cls(Digit), 1), Str("/"), RepN(Cls(Digit), 1), RepN(Cls(Space), 0), Cls({"\"","'"})>>)),
     (* (\d+\s*["\']\s+\d+\s*["\']) *)
     Grp(1, Cat(<<RepN(Cls(Digit), 1), RepN(Cls(Space), 0), Cls({"\"","'"}), RepN(Cls(Space), 1), RepN(Cls(Digit), 1), RepN(Cls(Space), 0), Cls({"\"","'"})>>)),
     (* (\d+\s*["\']\s*[-^]?\s*\d+\s*\d+\/\d+) *)
     Grp(1, Cat(<<RepN(Cls(Digit), 1), RepN(Cls(Space), 0), Cls({"\"","'"}), RepN(Cls(Space), 0), Rep(Cls({"-","^"}), 0, 1), RepN(Cls(Space), 0), RepN(Cls(Digit), 1), RepN(Cls(Space), 0), RepN(Cls(Digit), 1), Str("/"), RepN(Cls(Digit), 1)>>)),
     (* (\d+\s*["\']\s*[-^]?\s*\d+\s*\d+\/\d+\s*["\']?) *)
     Grp(1, Cat(<<RepN(Cls(Digit), 1), RepN(Cls(Space), 0), Cls({"\"","'"}), RepN(Cls(Space), 0), Rep(Cls({"-","^"}), 0, 1), RepN(Cls(Space), 0), RepN(Cls(Digit), 1), RepN(Cls(Space), 0), RepN(Cls(Digit), 1), Str("/"), RepN(Cls(Digit), 1), RepN(Cls(Space), 0), Rep(Cls({"\"","'"}), 0, 1)>>)),
     (* (?:[=:]\s* )(\d+\s*["\']\s*[-^]?\s*\d+\s*\d+\/\d+\s*["\']?) *)
     Cat(<<Cls({"=",":"}), RepN(Cls(Space), 0), Grp(1, Cat(<<RepN(Cls(Digit), 1), RepN(Cls(Space), 0), Cls({"\"","'"}), RepN(Cls(Space), 0), Rep(Cls({"-","^"}), 0, 1), RepN(Cls(Space), 0), RepN(Cls(Digit), 1), RepN(Cls(Space), 0), RepN(Cls(Digit), 1), Str("/"), RepN(Cls(Digit), 1), RepN(Cls(Space), 0), Rep(Cls({"\"","'"}), 0, 1)>>))>>),
     (* (?:[=:]\s* )(\d+\s*["\']\s*[-^]?\s*\d+\s*["\']?) *)
     Cat(<<Cls({"=",":"}), RepN(Cls(Space), 0), Grp(1, Cat(<<RepN(Cls(Digit), 1), RepN(Cls(Space), 0), Cls({"\"","'"}), RepN(Cls(Space), 0), Rep(Cls({"-","^"}), 0, 1), RepN(Cls(Space), 0), RepN(Cls(Digit), 1), RepN(Cls(Space), 0), Rep(Cls({"\"","'"}), 0, 1)>>))>>) >>
\* lines 537-542 (case-sensitive, on the upper-cased line)
drawing_reference_patterns ==
  << (* ^[A-Z]\d+[-\.][A-Z]+[-\.] *)
     Cat(<<Bol, Cls(Upper), RepN(Cls(Digit), 1), Cls({"-","."}), RepN(Cls(Upper), 1), Cls({"-","."})>>),
     (* ^LINE\s+\d+ *)
     Cat(<<Bol, Str("LINE"), RepN(Cls(Space), 1), RepN(Cls(Digit), 1)>>),
     (* ^DWG[-\.]\d+ *)
     Cat(<<Bol, Str("DWG"), Cls({"-","."}), RepN(Cls(Digit), 1)>>),
     (* ^[A-Z]+\d*[-\.]MP[-\.] *)
     Cat(<<Bol, RepN(Cls(Upper), 1), RepN(Cls(Digit), 0), Cls({"-","."}), Str("MP"), Cls({"-","."})>>) >>

(***************************************************************************)
(* ConstructionParser._detect_item_line                                    *)
(***************************************************************************)
instruction_phrases ==
  << "up to", "see", "refer to", "see page", "refer page", "see drawing", "refer drawing",
     "see spec", "refer spec", "use", "install", "mount", "connect", "note:", "notice:" >>

\* item_data as the function starts: no key is set.  has_spec_decimal and
\* spec_decimal_value are the keys '_has_spec_decimal', '_spec_decimal_value';
\* 'spec_reference' is a key the function reads and never sets.
empty_item_data ==
  [type |-> Missing, quantity |-> Missing, model |-> Missing, dimensions |-> Missing,
   mounting |-> Missing, spec |-> Missing, spec_reference |-> Missing,
   has_spec_decimal |-> FALSE, spec_decimal_value |-> Missing]

\* The first checks: the line is vetoed before any pattern of the catalog runs.
matches_exclude_pattern(line) ==
  \E k \in DOMAIN exclude_patterns : search(exclude_patterns[k], line, TRUE).ok
starts_with_instruction_phrase(line) ==
  \E k \in DOMAIN instruction_phrases : startswith(strip(upper(line)), upper(instruction_phrases[k]))
starts_with_action_verb(line) == match(action_verb_pattern, line, TRUE).ok
\* is_excluded with the loop over exclude_patterns left out
is_excluded_without_patterns(line) ==
  \/ starts_with_instruction_phrase(line)
  \/ starts_with_action_verb(line)
  \/ Len(strip(line)) < 3
is_excluded(line) ==
  \/ matches_exclude_pattern(line)
  \/ starts_with_instruction_phrase(line)
  \/ starts_with_action_verb(line)
  \/ Len(strip(line)) < 3

\* The first of the longest strings of a sequence ("" for the empty one)
first_longest(texts) ==
  IF texts = <<>> THEN ""
  ELSE texts[CHOOSE j \in DOMAIN texts :
               /\ \A i \in DOMAIN texts : Len(texts[i]) <= Len(texts[j])
               /\ \A i \in 1..(j - 1) : Len(texts[i]) < Len(texts[j])]
\* The stripped texts of the matches ms, left to right
stripped_texts(ms, line) == [j \in 1..Len(ms) |-> strip(group0(ms[j], line))]
matched_texts(k, line) == stripped_texts(finditer(fixture_patterns[k], line, TRUE), line)
\* lines 244-254: the longest fixture keyword match of the line ("" when
\* there is none): the first of that length, patterns in order, matches
\* left to right.
best_match(line) ==
  first_longest([k \in DOMAIN fixture_patterns |-> first_longest(matched_texts(k, line))])

\* line 260: \b([A-Z][A-Za-z\s]+?)\s*(?:<re.escape(best_match)>|package|equipment|fixture|station|connection)
full_item_pattern(best) ==
  Cat(<<WordB, Grp(1, Cat(<<Cls(Upper), RepLazyN(Cls(Upper \cup Lower \cup Space), 1)>>)), RepN(Cls(Space), 0), Alt(<<Str(best), Str("package"), Str("equipment"), Str("fixture"), Str("station"), Str("connection")>>)>>)

\* Adjacent words that are equal but for case are collapsed to the first.
RECURSIVE unique_words(_, _)
unique_words(words, prev_word) ==
  IF words = <<>> THEN <<>>
  ELSE IF upper(Head(words)) = prev_word THEN unique_words(Tail(words), prev_word)
  ELSE <<Head(words)>> \o unique_words(Tail(words), upper(Head(words)))

\* lines 260-273: the type of a line whose longest keyword match is best;
\* the words before the keyword are put in front of it when there are any
keyword_type(line, best, full_item_match) ==
  IF full_item_match.ok
  THEN S(title(join(unique_words(split(strip(group(full_item_match, line, 1)) \o " " \o best), ""), " ")))
  ELSE S(title(best))
\* lines 279-292: a capitalized phrase of two or more words is the type of
\* a line with no keyword, unless it reads as a dimension or as a number
phrase_type(found, potential_type) ==
  IF /\ found
     /\ Len(split(potential_type)) >= 2
     /\ Len(potential_type) > 10
     /\ ~search(is_dimension_pattern, potential_type, FALSE).ok
     /\ ~match(is_numeric_pattern, strip(potential_type), FALSE).ok
  THEN S(potential_type)
  ELSE Missing
capitalized_type(line, capitalized_phrase) ==
  phrase_type(capitalized_phrase.ok, strip(group(capitalized_phrase, line, 1)))
type_of(line, best) ==
  IF best # "" THEN keyword_type(line, best, search(full_item_pattern(best), line, TRUE))
  ELSE capitalized_type(line, search(capitalized_phrase_pattern, line, FALSE))
\* lines 243-292 (Missing when the line gives no type)
detect_type(line) == type_of(line, best_match(line))

\* lines 303-321: the number is taken to be part of a model number when the
\* first match of a model shape in the line contains its text, or when an
\* instruction word stands right before it.
in_match(model_match, line, qty_str) == model_match.ok /\ contains(group0(model_match, line), qty_str)
is_part_of_model(line, m) ==
  \/ \E j \in DOMAIN model_patterns_in_line :
        in_match(search(model_patterns_in_line[j], line, TRUE), line, group(m, line, 1))
  \/ \E phrase \in {"UP TO", "SEE", "REFER TO", "USE"} :
        endswith(upper(strip(SubSeq(line, 1, m.b - 1))), phrase)

\* lines 325-340: an unlabeled decimal on a line with a dimension or one of
\* the listed model markers is a spec reference (and is stored as one when
\* no spec is set yet).
decimal_is_marked_spec(line, qty_str) ==
  /\ contains(qty_str, ".")
  /\ ~search(explicit_decimal_qty_pattern, line, TRUE).ok
  /\ search(dimension_or_model_marker_pattern, line, TRUE).ok
is_spec_reference(line, d, qty_str) ==
  IF d.has_spec_decimal
  THEN qty_str = str(Get(d, "spec_decimal_value")) \/ (IF d.spec.t = "missing" THEN qty_str = "" ELSE qty_str = str(d.spec))
  ELSE decimal_is_marked_spec(line, qty_str)
\* lines 336-340
note_spec_decimal(line, d, qty_str) ==
  IF ~d.has_spec_decimal /\ decimal_is_marked_spec(line, qty_str) /\ ~Truthy(Get(d, "spec"))
  THEN [d EXCEPT !.spec = S(qty_str), !.has_spec_decimal = TRUE, !.spec_decimal_value = S(qty_str)]
  ELSE d

\* lines 344-348 and 659-666: int() of a whole number, the text of a decimal
quantity_value(qty_str) == IF contains(qty_str, ".") THEN S(qty_str) ELSE I(int_of(qty_str))
\* lines 294-351: the quantity patterns in order; the first whose number is
\* neither part of a model number nor a spec reference sets the quantity.
\* quantity_step is the loop body for pattern k, m its match on the line.
RECURSIVE detect_quantity_from(_, _, _), quantity_step(_, _, _, _, _)
quantity_step(k, line, d, m, qty_str) ==
  IF ~m.ok THEN detect_quantity_from(k + 1, line, d)
  ELSE IF ~is_part_of_model(line, m) /\ ~is_spec_reference(line, d, qty_str)
  THEN [d EXCEPT !.quantity = quantity_value(qty_str)]
  ELSE detect_quantity_from(k + 1, line, note_spec_decimal(line, d, qty_str))
matched_quantity(k, line, d, m) == quantity_step(k, line, d, m, group(m, line, 1))
detect_quantity_from(k, line, d) ==
  IF k > Len(quantity_patterns) THEN d
  ELSE matched_quantity(k, line, d, search(quantity_patterns[k], line, TRUE))
detect_quantity(line, d) == detect_quantity_from(1, line, d)

legal_words == <<"PROHIBITED", "COPYRIGHT", "RESERVED", "CONFIDENTIAL", "USE IN">>
has_legal_word(line) == \E k \in DOMAIN legal_words : contains(upper(line), legal_words[k])

\* lines 361-387: the groups of one model match, last group first.  A group
\* that is empty, all digits or a single character passes to the group
\* before it; a location code (one letter and digits, at most 4 characters)
\* is kept only when the line is labeled, has no legal word and more than
\* two words, and else passes to the group before it; any other group ends
\* the loop and nothing is kept for it.
RECURSIVE models_of_groups(_, _, _, _), model_of_group(_, _, _, _, _)
model_of_group(m, line, n, all_models, model) ==
  IF model = "" \/ match(all_digits_pattern, model, FALSE).ok \/ Len(model) <= 1 \/ Len(model) >= 50
  THEN models_of_groups(m, line, n - 1, all_models)
  ELSE IF ~(Len(model) <= 4 /\ match(location_code_pattern, model, FALSE).ok)
  THEN all_models
  ELSE IF \/ has_legal_word(line)
          \/ ~search(model_label_pattern, line, TRUE).ok
          \/ Len(split(strip(line))) <= 2 /\ contains(upper(line), upper(model))
  THEN models_of_groups(m, line, n - 1, all_models)
  ELSE IF /\ search(has_letter_pattern, model, FALSE).ok
          /\ search(has_digit_pattern, model, FALSE).ok
          /\ \A j \in DOMAIN all_models : all_models[j] # model
  THEN Append(all_models, model)
  ELSE all_models
models_of_groups(m, line, n, all_models) ==
  IF n = 0 THEN all_models ELSE model_of_group(m, line, n, all_models, strip(group(m, line, n)))

RECURSIVE models_of_matches(_, _, _, _, _), all_models_from(_, _, _)
models_of_matches(ms, j, line, n, all_models) ==
  IF j > Len(ms) THEN all_models
  ELSE models_of_matches(ms, j + 1, line, n, models_of_groups(ms[j], line, n, all_models))
all_models_from(k, line, all_models) ==
  IF k > Len(model_patterns) THEN all_models
  ELSE all_models_from(k + 1, line,
         models_of_matches(finditer(model_patterns[k], line, TRUE), 1, line, ngroups(model_patterns[k]), all_models))
\* line 405: at most two models, joined
joined_models(all_models) ==
  IF all_models = <<>> THEN Missing ELSE S(join(SubSeq(all_models, 1, AtMost(Len(all_models), 2)), ", "))
\* lines 353-405 (Missing when no model is kept)
detect_model(line) == joined_models(all_models_from(1, line, <<>>))

\* lines 417-426: a simple fraction is dropped on a line with a model shape
\* or an instruction word and no dimension word
keep_dim(line, dim) ==
  ~ /\ contains(dim, "/") /\ Len(dim) <= 4
    /\ \/ search(has_model_pattern, line, TRUE).ok
       \/ \E phrase \in {"UP TO", "SEE", "REFER TO"} : contains(upper(line), phrase)
    /\ ~search(fraction_context_pattern, line, TRUE).ok
RECURSIVE filtered_dims(_, _)
filtered_dims(line, dim_parts) ==
  IF dim_parts = <<>> THEN <<>>
  ELSE (IF keep_dim(line, Head(dim_parts)) THEN <<Head(dim_parts)>> ELSE <<>>) \o filtered_dims(line, Tail(dim_parts))
\* The first of two results that is not the result for nothing
or_else(first, second, nothing) == IF first # nothing THEN first ELSE second
\* lines 449-454: the first full dimension string of the line among the
\* patterns lo..hi, "" for none
full_dim_of(full_match, line) == IF full_match.ok THEN strip(group(full_match, line, 1)) ELSE ""
RECURSIVE full_dim_from(_, _, _)
full_dim_from(lo, hi, line) ==
  IF lo = hi THEN full_dim_of(search(full_dim_patterns[lo], line, TRUE), line)
  ELSE or_else(full_dim_from(lo, (lo + hi) \div 2, line), full_dim_from((lo + hi) \div 2 + 1, hi, line), "")
full_dim_found(line) == full_dim_from(1, Len(full_dim_patterns), line)
\* lines 463-480: a single part counts when it carries a unit itself, or the
\* line has dimension context and the part is not a bare number
single_dim_ok(line, single_dim) ==
  \/ search(has_units_in_dim_pattern, single_dim, TRUE).ok
  \/ /\ search(has_dimension_context_pattern, line, TRUE).ok
     /\ ~match(all_digits_pattern, strip(single_dim), FALSE).ok

\* lines 427-486: the dimensions of a pattern whose kept groups are dims
dimensions_given(line, dims, full_dim) ==
  IF dims = <<>> THEN Missing
  ELSE IF full_dim # "" THEN S(full_dim)
  ELSE IF Len(dims) >= 2 THEN S(join(dims, " x "))
  ELSE IF single_dim_ok(line, dims[1]) THEN S(dims[1])
  ELSE Missing
dimensions_of_match(k, line, m) ==
  IF ~m.ok THEN Missing
  ELSE dimensions_given(line, filtered_dims(line, nonempty_groups(dimension_patterns[k], m, line)),
                        full_dim_found(line))
\* lines 408-486 for one pattern: the dimensions it gives, Missing when the
\* loop goes on to the next pattern
dimensions_at(k, line) == dimensions_of_match(k, line, search(dimension_patterns[k], line, TRUE))
\* lines 407-486: the dimensions of the first pattern among lo..hi that
\* gives any
RECURSIVE detect_dimensions_from(_, _, _)
detect_dimensions_from(lo, hi, line) ==
  IF lo = hi THEN dimensions_at(lo, line)
  ELSE or_else(detect_dimensions_from(lo, (lo + hi) \div 2, line),
               detect_dimensions_from((lo + hi) \div 2 + 1, hi, line), Missing)
detect_dimensions(line) == detect_dimensions_from(1, Len(dimension_patterns), line)

\* lines 488-494: the text of the first mounting pattern among lo..hi that
\* matches
mounting_of(m, line) == IF m.ok THEN S(strip(group0(m, line))) ELSE Missing
RECURSIVE detect_mounting_from(_, _, _)
detect_mounting_from(lo, hi, line) ==
  IF lo = hi THEN mounting_of(search(mounting_patterns[lo], line, TRUE), line)
  ELSE or_else(detect_mounting_from(lo, (lo + hi) \div 2, line),
               detect_mounting_from((lo + hi) \div 2 + 1, hi, line), Missing)
detect_mounting(line) == detect_mounting_from(1, Len(mounting_patterns), line)

\* lines 498-506: the groups of the first spec pattern among lo..hi that
\* gives a non-empty string, joined with a space ("" for none)
spec_str_of(k, m, line) == IF m.ok THEN strip(join(nonempty_groups(spec_patterns[k], m, line), " ")) ELSE ""
RECURSIVE spec_str_from(_, _, _)
spec_str_from(lo, hi, line) ==
  IF lo = hi THEN spec_str_of(lo, search(spec_patterns[lo], line, TRUE), line)
  ELSE or_else(spec_str_from(lo, (lo + hi) \div 2, line), spec_str_from((lo + hi) \div 2 + 1, hi, line), "")
\* lines 507-514
with_spec(d, spec_str) ==
  IF spec_str = "" THEN d
  ELSE IF contains(spec_str, ".") /\ match(decimal_spec_pattern, spec_str, FALSE).ok
  THEN [d EXCEPT !.spec = S(spec_str), !.has_spec_decimal = TRUE, !.spec_decimal_value = S(spec_str)]
  ELSE [d EXCEPT !.spec = S(spec_str)]
\* lines 496-514: runs after the quantity stage and replaces its 'spec'
detect_spec(line, d) == with_spec(d, spec_str_from(1, Len(spec_patterns), line))

\* lines 518-533: the final instruction check, on the stripped upper-cased line
is_instruction_text(line_stripped) ==
  \/ \E p \in {"UP TO", "SEE ", "REFER ", "USE ", "INSTALL ", "MOUNT ", "CONNECT "} : startswith(line_stripped, p)
  \/ \E p \in {"SEE PAGE", "SEE DRAWING", "SEE SPEC", "REFER TO"} : contains(line_stripped, p)
is_instruction(line) == is_instruction_text(upper(strip(line)))

\* line 543
is_drawing_reference(line) ==
  \E k \in DOMAIN drawing_reference_patterns : match(drawing_reference_patterns[k], upper(strip(line)), FALSE).ok

\* lines 546-555: the comparison of line 546 is of a value with itself, so
\* this branch is the one taken for every line that starts with a reference.
without_type(d, text) == IF Get(d, "type") = S(text) THEN [d EXCEPT !.type = Missing] ELSE d
drawing_reference_item(line, d) ==
  without_type(IF ~Truthy(Get(d, "spec")) THEN [d EXCEPT !.spec = S(strip(line))] ELSE d, strip(line))
drawing_reference_kept(d) ==
  Truthy(Get(d, "model")) \/ Truthy(Get(d, "quantity")) \/ Truthy(Get(d, "dimensions"))

\* lines 563-593: the four strong indicators
has_strong_indicators(line, d) ==
  \/ Truthy(Get(d, "type")) /\ best_match(line) # ""
  \/ Truthy(Get(d, "quantity")) /\ Truthy(Get(d, "model"))
  \/ /\ Truthy(Get(d, "model"))
     /\ \/ Truthy(Get(d, "mounting")) \/ Truthy(Get(d, "spec")) \/ Truthy(Get(d, "type"))
        \/ Truthy(Get(d, "quantity"))
  \/ Truthy(Get(d, "quantity")) /\ search(unit_quantity_pattern, line, TRUE).ok

exclude_phrases ==
  <<"OR USE", "USE IN", "IN WHOLE", "IN PART", "PROHIBITED", "COPYRIGHT", "ALL RIGHTS",
    "RESERVED", "CONFIDENTIAL", "STRICTLY PROHIBITED", "WITHOUT WRITTEN">>
\* lines 603-622: the candidate type is taken unless it holds an excluded
\* phrase, reads as a dimension or a number, or has 40 characters or more
with_fallback_type(d, potential_type) ==
  IF \/ \E k \in DOMAIN exclude_phrases : contains(upper(potential_type), exclude_phrases[k])
     \/ search(is_dimension_pattern, potential_type, FALSE).ok
     \/ match(is_numeric_pattern, strip(potential_type), FALSE).ok
  THEN d
  ELSE IF Len(potential_type) < 40 THEN [d EXCEPT !.type = S(potential_type)]
  ELSE d
\* lines 600-603
first_words(d, words) ==
  IF words = <<>> THEN d
  ELSE with_fallback_type(d, strip(join(SubSeq(words, 1, AtMost(Len(words), 3)), " ")))
\* lines 598-622: with no type but a quantity or a model, the first three
\* words of the line become the type
fallback_type(line, d) ==
  IF Truthy(Get(d, "type")) \/ ~(Truthy(Get(d, "quantity")) \/ Truthy(Get(d, "model"))) THEN d
  ELSE first_words(d, split(line))

\* lines 625-626: the flags are dropped
without_flags(d) == [d EXCEPT !.has_spec_decimal = FALSE, !.spec_decimal_value = Missing]
\* lines 630-632: the quantity is dropped when it equals the key
\* 'spec_reference' (a key this function never sets)
without_spec_quantity(d) ==
  IF /\ Truthy(Get(d, "quantity")) /\ Truthy(Get(d, "spec_reference"))
     /\ str(d.quantity) = str(d.spec_reference)
  THEN [d EXCEPT !.quantity = Missing] ELSE d
\* lines 635-644: the adjacent duplicate words of the type are collapsed
with_unique_words(d) ==
  IF Truthy(Get(d, "type")) THEN [d EXCEPT !.type = S(join(unique_words(split(d.type.s), ""), " "))] ELSE d
\* lines 625-644
cleanup(d) == with_unique_words(without_spec_quantity(without_flags(d)))

\* The stages of lines 240-514.  Type, model, dimensions and mounting are
\* read off the line alone; the quantity stage also leaves a spec and its
\* flag, which the spec stage, the last one, reads and may replace.
detected_fields(line) ==
  detect_spec(line,
    [detect_quantity(line, empty_item_data) EXCEPT
       !.type = detect_type(line), !.model = detect_model(line),
       !.dimensions = detect_dimensions(line), !.mounting = detect_mounting(line)])

Rejected == [ok |-> FALSE, d |-> empty_item_data]
\* lines 556-649: a drawing reference with no model, quantity or dimensions
\* is dropped; a line with a strong indicator gives the item
confidence_gate(line, d, is_ref) ==
  IF is_ref /\ ~drawing_reference_kept(d) THEN Rejected
  ELSE IF has_strong_indicators(line, d) THEN [ok |-> TRUE, d |-> cleanup(fallback_type(line, d))]
  ELSE Rejected
\* lines 543-555
after_drawing_reference(line, d, is_ref) ==
  confidence_gate(line, IF is_ref THEN drawing_reference_item(line, d) ELSE d, is_ref)
\* _detect_item_line(line): ok is FALSE for the result None.  The checks of
\* lines 518-533 read the line only and return None whatever was detected.
_detect_item_line(line) ==
  IF is_excluded(line) \/ is_instruction(line) THEN Rejected
  ELSE after_drawing_reference(line, detected_fields(line), is_drawing_reference(line))

(***************************************************************************)
(* ConstructionParser._enrich_item                                         *)
(***************************************************************************)
\* The first of patterns[lo..hi] that matches the line: k is its number
\* (0 for none) and m its match
found_at(k, m) == [k |-> IF m.ok THEN k ELSE 0, m |-> m]
first_found(first, second) == IF first.k # 0 THEN first ELSE second
RECURSIVE first_matching(_, _, _, _)
first_matching(patterns, lo, hi, line) ==
  IF lo = hi THEN found_at(lo, search(patterns[lo], line, TRUE))
  ELSE first_found(first_matching(patterns, lo, (lo + hi) \div 2, line),
                   first_matching(patterns, (lo + hi) \div 2 + 1, hi, line))

quantity_found(f, line) == IF f.k = 0 THEN Missing ELSE quantity_value(group(f.m, line, 1))
\* lines 655-667: the number of the first quantity pattern that matches,
\* with no check of what surrounds it
enrich_quantity(line) == quantity_found(first_matching(quantity_patterns, 1, Len(quantity_patterns), line), line)

\* lines 671-685: the last non-empty group of the first model pattern that
\* matches
RECURSIVE last_group(_, _, _)
last_group(m, line, n) ==
  IF n = 0 THEN Missing
  ELSE or_else(IF strip(group(m, line, n)) # "" THEN S(strip(group(m, line, n))) ELSE Missing,
               last_group(m, line, n - 1), Missing)
model_found(f, line) == IF f.k = 0 THEN Missing ELSE last_group(f.m, line, ngroups(model_patterns[f.k]))
enrich_model(line) == model_found(first_matching(model_patterns, 1, Len(model_patterns), line), line)

\* lines 690-717: the groups of the first dimension pattern that matches; a
\* single group counts only with a unit or with dimension context
RECURSIVE stripped_parts(_)
stripped_parts(dims) ==
  IF dims = <<>> THEN <<>>
  ELSE (IF strip(Head(dims)) # "" THEN <<strip(Head(dims))>> ELSE <<>>) \o stripped_parts(Tail(dims))
dimensions_of_parts(line, dim_parts) ==
  IF dim_parts = <<>> THEN Missing
  ELSE IF Len(dim_parts) > 1 THEN S(join(dim_parts, " x "))
  ELSE IF \/ search(enrich_has_units_pattern, dim_parts[1], TRUE).ok
          \/ /\ search(enrich_has_context_pattern, line, TRUE).ok
             /\ ~match(all_digits_pattern, strip(dim_parts[1]), FALSE).ok
  THEN S(dim_parts[1])
  ELSE Missing
dimensions_found(f, line) ==
  IF f.k = 0 THEN Missing
  ELSE dimensions_of_parts(line, stripped_parts(nonempty_groups(dimension_patterns[f.k], f.m, line)))
enrich_dimensions(line) ==
  dimensions_found(first_matching(dimension_patterns, 1, Len(dimension_patterns), line), line)

\* line 727: re.sub(r'[-\s]+', '-', s)
collapse_separators(s) ==
  concat([i \in 1..Len(s) |->
            IF Ch(s, i) \notin Space \cup {"-"} THEN Ch(s, i)
            ELSE IF i > 1 /\ Ch(s, i - 1) \in Space \cup {"-"} THEN "" ELSE "-"],
         1, Len(s))
\* s.replace(old, new)
first_index(s, old) ==
  CHOOSE i \in 1..Len(s) :
    /\ SubSeq(s, i, i + Len(old) - 1) = old
    /\ \A j \in 1..(i - 1) : SubSeq(s, j, j + Len(old) - 1) # old
RECURSIVE replace(_, _, _), replace_at(_, _, _, _)
replace_at(s, old, new, i) ==
  SubSeq(s, 1, i - 1) \o new \o replace(SubSeq(s, i + Len(old), Len(s)), old, new)
replace(s, old, new) == IF ~contains(s, old) THEN s ELSE replace_at(s, old, new, first_index(s, old))
\* lines 727-729
normalize_mounting(mounting) ==
  title(replace(replace(collapse_separators(lower(mounting)), "mounting", "mount"), "hung", "mount"))
\* lines 721-730
normalized(mounting) == IF mounting = "" THEN Missing ELSE S(normalize_mounting(mounting))
mounting_found(f, line) == IF f.k = 0 THEN Missing ELSE normalized(strip(group0(f.m, line)))
enrich_mounting(line) == mounting_found(first_matching(mounting_patterns, 1, Len(mounting_patterns), line), line)

\* line 751: the spec patterns whose text contains 'page' or 'pg' (the
\* last three, lines 148-150)
page_patterns == {6, 7, 8}
\* lines 752-756: the first number of the spec string
page_of(page_match, spec_str) == IF page_match.ok THEN I(int_of(group0(page_match, spec_str))) ELSE Missing
\* lines 746-756
spec_and_page(k, spec_str) ==
  IF spec_str = "" THEN [spec |-> Missing, page |-> Missing]
  ELSE [spec |-> S(spec_str),
        page |-> IF k \in page_patterns THEN page_of(search(first_number_pattern, spec_str, FALSE), spec_str)
                 ELSE Missing]
spec_found(f, line) ==
  IF f.k = 0 THEN [spec |-> Missing, page |-> Missing]
  ELSE spec_and_page(f.k, strip(join(nonempty_groups(spec_patterns[f.k], f.m, line), " ")))
\* lines 734-758: the groups of the first spec pattern that matches and, for
\* a page pattern, the first number in them
enrich_spec(line) == spec_found(first_matching(spec_patterns, 1, Len(spec_patterns), line), line)

\* The fields a line offers, the spec and its page number from one match
offered(quantity, model, dimensions, mounting, spec_page) ==
  [quantity |-> quantity, model_number |-> model, dimensions |-> dimensions, mounting_type |-> mounting,
   spec_reference |-> spec_page.spec, page_number |-> spec_page.page]
\* What a line offers to an item that lacks the field
enrichment(line) ==
  offered(enrich_quantity(line), enrich_model(line), enrich_dimensions(line), enrich_mounting(line),
          enrich_spec(line))

\* _enrich_item given what the line offers: a field is set only when the
\* item has no truthy value for it; the page number goes with the spec.
enriched(item, e) ==
  [item EXCEPT
     !.quantity = IF ~Truthy(Get(item, "quantity")) /\ e.quantity # Missing THEN e.quantity ELSE @,
     !.model_number = IF ~Truthy(Get(item, "model_number")) /\ e.model_number # Missing THEN e.model_number ELSE @,
     !.dimensions = IF ~Truthy(Get(item, "dimensions")) /\ e.dimensions # Missing THEN e.dimensions ELSE @,
     !.mounting_type = IF ~Truthy(Get(item, "mounting_type")) /\ e.mounting_type # Missing THEN e.mounting_type ELSE @,
     !.spec_reference = IF ~Truthy(Get(item, "spec_reference")) /\ e.spec_reference # Missing THEN e.spec_reference ELSE @,
     !.page_number = IF ~Truthy(Get(item, "spec_reference")) /\ e.page_number # Missing THEN e.page_number ELSE @]
_enrich_item(item, line) == enriched(item, enrichment(line))

(***************************************************************************)
(* State.  Each routine is followed step by step from its own initial      *)
(* states; pc names the routine in progress and the place in it.           *)
(***************************************************************************)
VARIABLES
  pc,                \* the routine in progress and the place reached in it
  \* ConstructionParser.extract_items and parse_tables
  lines,             \* text.split('\n') of the page text given to extract_items
  page_num,          \* the page number given to extract_items or parse_tables
  line_num,          \* the number of lines the loop has gone through
  current_item,      \* the item being accumulated, None when there is none
  items,             \* the items appended so far
  tables,            \* the tables given to parse_tables
  table_idx,         \* the number of tables the outer loop has gone through
  row_idx,           \* the number of data rows gone through in the table at hand
  \* ConstructionExtractionStrategy._merge_regex_and_llm_items
  regex_items, llm_items, merged_items, used_llm_indices,
  idx,               \* the number of items the loop at hand has gone through
  \* ConstructionExtractionStrategy.extract
  pages_data,        \* what the page provider gave: page_num, text and tables
  llm_parser,        \* TRUE when the strategy was built with a parser
  page_idx,          \* the number of pages the first loop has gone through
  all_items,
  enhanced,          \* what llm_parser.parse gave, NoResponse before the call
  llm_success,
  output,            \* the dict extract returns, None before the return
  llm_calls,         \* the number of calls of llm_parser.parse so far
  text_for_llm,      \* the length of the text given to the last call of parse
  \* ExtractionServiceFactory.create_construction_service
  llm_type,          \* the llm_type asked for, "" for None
  api_key,           \* TRUE when os.getenv gives a key for the llm_type
  library_installed, \* TRUE when the import in the parser's __init__ succeeds
  \* PDFTextExtractor.extract_text and _extract_with_ocr
  use_ocr,           \* TRUE when the pages go through _extract_with_ocr
  show_progress,     \* the argument show_progress
  total_pages,       \* the number of pages of the document
  pages_done,        \* len(pages_data) inside the extractor
  _stop_spinner,     \* the Event self._stop_spinner: TRUE when set
  _spinner_thread,   \* the spinner self._spinner_thread is, numbered in the order of start, 0 for None
  alive              \* the spinner threads that have started and not ended

items_vars == <<lines, line_num, current_item>>
tables_vars == <<tables, table_idx, row_idx>>
merge_vars == <<regex_items, llm_items, merged_items, used_llm_indices, idx>>
call_vars == <<llm_calls, text_for_llm>>
service_vars == <<llm_type, api_key, library_installed>>
spinner_vars == <<use_ocr, show_progress, total_pages, pages_done, _stop_spinner, _spinner_thread, alive>>
extract_vars ==
  <<pages_data, llm_parser, page_idx, all_items, enhanced, llm_success, output, call_vars, service_vars,
    spinner_vars>>
vars == <<pc, page_num, items, items_vars, tables_vars, merge_vars, extract_vars>>

\* The variables of a routine that is not the one in progress
NoItems == lines = <<>> /\ line_num = 0 /\ current_item = None
NoTables == tables = <<>> /\ table_idx = 0 /\ row_idx = 0
NoMerge ==
  /\ regex_items = <<>> /\ llm_items = <<>> /\ merged_items = <<>>
  /\ used_llm_indices = {} /\ idx = 0
NoResponse == [kind |-> "none", items |-> <<>>]
NoCall == llm_calls = 0 /\ text_for_llm = 0
NoService == llm_type = "" /\ api_key = FALSE /\ library_installed = FALSE
NoSpinner ==
  /\ use_ocr = FALSE /\ show_progress = FALSE /\ total_pages = 0 /\ pages_done = 0
  /\ _stop_spinner = FALSE /\ _spinner_thread = 0 /\ alive = {}
NoExtract ==
  /\ pages_data = <<>> /\ llm_parser = FALSE /\ page_idx = 0 /\ all_items = <<>>
  /\ enhanced = NoResponse /\ llm_success = FALSE /\ output = None
  /\ NoCall /\ NoService /\ NoSpinner

(***************************************************************************)
(* ConstructionParser.extract_items, one line of the page per step         *)
(***************************************************************************)
\* The lines a page is made of
LinePool ==
  { "", "Pump", "Valve", "4 ea", "OM-141", "Wall hung", "31.1", "4", "L01", "PN: L01", "PN: L01 pump",
    "Valve 31.1", "Pump OM-141 31.1", "Room 12 East", "total 4", " COPYRIGHT valve",
    "GENERAL NOTES AND CONDITIONS", "12345", "***", "SEE MAU-11", "Note: valve 4 ea", "LINE 1",
    "L01-MP-P.1A", "2 VALVE PACKAGE (OM-141), Wall-Mounted, 1 1/2\"~", "Pump 0 ea", "Page 7",
    "Valve (12) 31.1", "Valve qty 14 OM-141 3 ea", "Valve OM-141 MAU-11 ea",
    "Valve wall hung" }
MaxLines == 2
MaxPage == 2
Pages == UNION {[1..n -> LinePool] : n \in 1..MaxLines}

\* What _detect_item_line and _enrich_item find in each line of the pool
StrippedLines == {strip(line) : line \in LinePool} \ {""}
detection == [line \in StrippedLines |-> _detect_item_line(line)]
enrichments == [line \in StrippedLines |-> enrichment(line)]

\* lines 184-194: the item a detection starts
new_item(item_match, page, line, n) ==
  [fixture_type |-> Get(item_match, "type"), quantity |-> Get(item_match, "quantity"),
   model_number |-> Get(item_match, "model"), dimensions |-> Get(item_match, "dimensions"),
   mounting_type |-> Get(item_match, "mounting"), spec_reference |-> Get(item_match, "spec"),
   page_number |-> I(page), raw_text |-> S(line), line_number |-> I(n + 1),
   table_number |-> Missing, row_number |-> Missing]
\* lines 180, 211: the item has a fixture type, a model number or a quantity
has_content(item) ==
  Truthy(Get(item, "fixture_type")) \/ Truthy(Get(item, "model_number")) \/ Truthy(Get(item, "quantity"))
\* lines 180-181, 211-212: the items once the current item is closed
closed(cur, its) == IF cur # None /\ has_content(cur) THEN Append(its, cur) ELSE its
\* lines 198-203: the previous line, the line and the next line, stripped
context_lines(lns, n) ==
  (IF n > 0 THEN <<strip(lns[n])>> ELSE <<>>) \o <<strip(lns[n + 1])>>
    \o (IF n + 1 < Len(lns) THEN <<strip(lns[n + 2])>> ELSE <<>>)
\* lines 206-208: the item enriched with each context line that is not empty
RECURSIVE enrich_with(_, _)
enrich_with(item, ctx) ==
  IF ctx = <<>> THEN item
  ELSE enrich_with(IF Head(ctx) # "" THEN enriched(item, enrichments[Head(ctx)]) ELSE item, Tail(ctx))
\* lines 172-195: what the loop body does with a stripped line: nothing for
\* a blank line (172-174), a new item for a detection (179), enrichment of
\* the current item when there is one (195), nothing otherwise
line_kind(line, cur) ==
  IF line = "" THEN "skip"
  ELSE IF detection[line].ok THEN "start"
  ELSE IF cur # None THEN "enrich"
  ELSE "skip"

ItemsInit ==
  /\ pc = "lines"
  /\ lines \in Pages
  /\ page_num \in 1..MaxPage
  /\ line_num = 0
  /\ current_item = None
  /\ items = <<>>
  /\ NoTables /\ NoMerge /\ NoExtract

\* lines 172-174 and the fall-through of 195: a blank line, or a line with
\* no detection while no item is being accumulated
SkipLine ==
  /\ pc = "lines" /\ line_num < Len(lines)
  /\ line_kind(strip(lines[line_num + 1]), current_item) = "skip"
  /\ line_num' = line_num + 1
  /\ UNCHANGED <<pc, lines, page_num, current_item, items, tables_vars, merge_vars, extract_vars>>
\* lines 177-194: a detection closes the current item and starts a new one
StartItem ==
  /\ pc = "lines" /\ line_num < Len(lines)
  /\ line_kind(strip(lines[line_num + 1]), current_item) = "start"
  /\ items' = closed(current_item, items)
  /\ current_item' = new_item(detection[strip(lines[line_num + 1])].d, page_num, strip(lines[line_num + 1]), line_num)
  /\ line_num' = line_num + 1
  /\ UNCHANGED <<pc, lines, page_num, tables_vars, merge_vars, extract_vars>>
\* lines 195-208: no detection, the line and its neighbours enrich the item
EnrichItem ==
  /\ pc = "lines" /\ line_num < Len(lines)
  /\ line_kind(strip(lines[line_num + 1]), current_item) = "enrich"
  /\ current_item' = enrich_with(current_item, context_lines(lines, line_num))
  /\ line_num' = line_num + 1
  /\ UNCHANGED <<pc, lines, page_num, items, tables_vars, merge_vars, extract_vars>>
\* lines 210-214: the last item is appended and the list returned
ReturnItems ==
  /\ pc = "lines" /\ line_num = Len(lines)
  /\ items' = closed(current_item, items)
  /\ pc' = "items_returned"
  /\ UNCHANGED <<lines, page_num, line_num, current_item, tables_vars, merge_vars, extract_vars>>

ItemsNext == SkipLine \/ StartItem \/ EnrichItem \/ ReturnItems
SpecItems == ItemsInit /\ [][ItemsNext]_vars

(***************************************************************************)
(* ConstructionParser.parse_tables, one table or one data row per step     *)
(***************************************************************************)
\* lines 780-787, in the order the dict is gone through
column_mapping ==
  << [field |-> "fixture_type", keywords |-> <<"item", "fixture", "type", "description", "product", "component">>],
     [field |-> "quantity", keywords |-> <<"qty", "quantity", "qty.", "count", "number", "pieces">>],
     [field |-> "model_number",
      keywords |-> <<"model", "part #", "part number", "pn", "sku", "cat #", "catalog #", "item #">>],
     [field |-> "dimensions",
      keywords |-> <<"size", "dimension", "dimensions", "length", "width", "height", "diameter">>],
     [field |-> "mounting_type", keywords |-> <<"mounting", "mount", "installation", "location">>],
     [field |-> "spec_reference", keywords |-> <<"spec", "specification", "standard", "grade", "class">>] >>
\* line 777: a header cell trimmed and lower-cased, '' for None or ''
header_of(cell) == IF Truthy(cell) THEN lower(strip(cell.s)) ELSE ""
\* lines 791-795: the first field, in the order of column_mapping, with a
\* keyword the header contains ("" for a column that maps to no field)
fields_in(header) ==
  {k \in DOMAIN column_mapping :
     \E j \in DOMAIN column_mapping[k].keywords : contains(header, column_mapping[k].keywords[j])}
first_field(ks) == IF ks = {} THEN "" ELSE column_mapping[CHOOSE k \in ks : \A j \in ks : k <= j].field
field_of(header) == first_field(fields_in(header))
\* lines 789-795
header_map(table) == [col_idx \in DOMAIN table[1] |-> field_of(header_of(table[1][col_idx]))]
\* lines 799-803
row_start(page, t, k) ==
  [fixture_type |-> Missing, quantity |-> Missing, model_number |-> Missing, dimensions |-> Missing,
   mounting_type |-> Missing, spec_reference |-> Missing,
   page_number |-> I(page), raw_text |-> Missing, line_number |-> Missing,
   table_number |-> I(t + 1), row_number |-> I(k)]
\* line 808
cell_text(cell_value) == IF Truthy(cell_value) THEN strip(cell_value.s) ELSE ""
\* line 813: \d+
embedded_integer_pattern ==
  RepN(Cls(Digit), 1)
\* The quantity cell with its first run of digits read as a number
with_quantity_as_text(item, qty_match, value) ==
  IF qty_match.ok THEN [item EXCEPT !.quantity = S(group0(qty_match, value))] ELSE item
\* lines 813-815: the first run of digits of the cell, as an int; the item
\* is left as it is when the cell has no digit
with_quantity(item, qty_match, value) ==
  IF qty_match.ok THEN [item EXCEPT !.quantity = I(int_of(group0(qty_match, value)))] ELSE item
\* lines 808-817
with_cell(item, field, value) ==
  IF field = "quantity" /\ value # ""
  THEN with_quantity(item, search(embedded_integer_pattern, value, FALSE), value)
  ELSE [item EXCEPT ![field] = IF value # "" THEN S(value) ELSE None]
\* lines 805-817: the cells of the row from column col on
RECURSIVE row_item(_, _, _, _)
row_item(item, hmap, row, col) ==
  IF col > Len(row) THEN item
  ELSE row_item(IF col \in DOMAIN hmap /\ hmap[col] # "" THEN with_cell(item, hmap[col], cell_text(row[col])) ELSE item,
                hmap, row, col + 1)
\* lines 821-827: a row with a fixture type, a quantity or a model number is
\* kept; a row with only dimensions, mounting or spec is kept under its
\* first cell when that cell is not None or ''; any other row is dropped
kept_row(its, item, row) ==
  IF Truthy(Get(item, "fixture_type")) \/ Truthy(Get(item, "quantity")) \/ Truthy(Get(item, "model_number"))
  THEN Append(its, item)
  ELSE IF \E k \in {"dimensions", "mounting_type", "spec_reference"} : Truthy(Get(item, k))
  THEN (IF row # <<>> /\ Truthy(row[1]) THEN Append(its, [item EXCEPT !.fixture_type = S(strip(str(row[1])))]) ELSE its)
  ELSE its
\* lines 798-827 for data row k of table number t + 1
parsed_row(its, table, page, t, k) ==
  kept_row(its, row_item(row_start(page, t, k), header_map(table), table[k + 1], 1), table[k + 1])

\* The tables a page provider gives: rows of cells, a cell a str or None
ItemHeader == <<S("Item"), S("Qty"), S("Model")>>
SizeHeader == <<S(" Description"), S("Count "), S("Part #"), S("SIZE")>>
PartHeader == <<S("Item #"), S("Part Number"), S("Qty")>>
TablePool ==
  { <<>>,
    <<PartHeader, <<S("A-7"), S("CP-22"), S("3")>>>>,
    <<ItemHeader>>,
    <<ItemHeader, <<S("Pump"), S("3"), S("CP-22")>>, <<S(" Valve "), S("12 ea"), None>>>>,
    <<ItemHeader, <<S(""), S("0"), None>>, <<S("Sink"), S("n/a"), S("S-1")>>>>,
    <<SizeHeader, <<S(" "), None, S(""), S("2 in")>>, <<S("Pump"), S("3"), S("CP-22")>>>>,
    <<SizeHeader, <<None, S("2 x 31"), S("OM-141"), S("")>>>> }
MaxTables == 2
TableLists == UNION {[1..n -> TablePool] : n \in 1..MaxTables}

TablesInit ==
  /\ pc = "rows"
  /\ tables \in TableLists
  /\ page_num \in 1..MaxPage
  /\ table_idx = 0 /\ row_idx = 0
  /\ items = <<>>
  /\ NoItems /\ NoMerge /\ NoExtract

\* lines 773-775: a table with no row, or with a header only
SkipTable ==
  /\ pc = "rows" /\ table_idx < Len(tables)
  /\ Len(tables[table_idx + 1]) < 2
  /\ table_idx' = table_idx + 1
  /\ UNCHANGED <<pc, page_num, items, tables, row_idx, items_vars, merge_vars, extract_vars>>
\* lines 798-827: one data row
ParseRow ==
  /\ pc = "rows" /\ table_idx < Len(tables)
  /\ Len(tables[table_idx + 1]) >= 2
  /\ row_idx < Len(tables[table_idx + 1]) - 1
  /\ items' = parsed_row(items, tables[table_idx + 1], page_num, table_idx, row_idx + 1)
  /\ row_idx' = row_idx + 1
  /\ UNCHANGED <<pc, page_num, tables, table_idx, items_vars, merge_vars, extract_vars>>
\* line 798: the rows of the table are exhausted
NextTable ==
  /\ pc = "rows" /\ table_idx < Len(tables)
  /\ Len(tables[table_idx + 1]) >= 2
  /\ row_idx = Len(tables[table_idx + 1]) - 1
  /\ table_idx' = table_idx + 1
  /\ row_idx' = 0
  /\ UNCHANGED <<pc, page_num, items, tables, items_vars, merge_vars, extract_vars>>
\* line 829
ReturnTableItems ==
  /\ pc = "rows" /\ table_idx = Len(tables)
  /\ pc' = "tables_returned"
  /\ UNCHANGED <<page_num, items, tables_vars, items_vars, merge_vars, extract_vars>>

TablesNext == SkipTable \/ ParseRow \/ NextTable \/ ReturnTableItems
SpecTables == TablesInit /\ [][TablesNext]_vars

(***************************************************************************)
(* ConstructionExtractionStrategy._merge_regex_and_llm_items, one item per *)
(* step, with _find_best_match and _merge_item_data                        *)
(***************************************************************************)
\* An item of the external list is a dict or, in a malformed response,
\* something else (a str)
is_dict(x) == "fixture_type" \in DOMAIN x
\* lines 370-371, 381-382: (item.get(key) or '').lower()
lowered(v) == IF Truthy(v) THEN lower(v.s) ELSE ""
\* lines 388-392 and 395-399: the full score for equal texts, half of it
\* when one contains the other, nothing when either is empty
text_score(a, b, full) ==
  IF a = "" \/ b = "" THEN 0
  ELSE IF a = b THEN full
  ELSE IF contains(b, a) \/ contains(a, b) THEN full \div 2
  ELSE 0
\* lines 385-403
score(regex_item, llm_item) ==
  text_score(lowered(Get(regex_item, "fixture_type")), lowered(Get(llm_item, "fixture_type")), 10)
    + text_score(lowered(Get(regex_item, "model_number")), lowered(Get(llm_item, "model_number")), 8)
    + (IF /\ Truthy(Get(regex_item, "page_number")) /\ Truthy(Get(llm_item, "page_number"))
          /\ Get(regex_item, "page_number") = Get(llm_item, "page_number")
       THEN 3 ELSE 0)
\* lines 377-379: an item already used is passed over
scores(regex_item, llms, used) ==
  [j \in DOMAIN llms |-> IF j \in used THEN 0 ELSE score(regex_item, llms[j])]
\* lines 374-408: the first item with the highest score above 0 (0 for none)
first_best(sc) ==
  IF \A j \in DOMAIN sc : sc[j] = 0 THEN 0
  ELSE CHOOSE j \in DOMAIN sc : (\A i \in DOMAIN sc : sc[i] <= sc[j]) /\ (\A i \in 1..(j - 1) : sc[i] < sc[j])
\* A threshold that a score of 3 does not reach
significant_above_three(sc, best_idx) == IF best_idx # 0 /\ sc[best_idx] > 3 THEN best_idx ELSE 0
\* line 411
significant(sc, best_idx) == IF best_idx # 0 /\ sc[best_idx] >= 3 THEN best_idx ELSE 0
\* _find_best_match: the position in llms of the match, 0 for None
_find_best_match(regex_item, llms, used) ==
  significant(scores(regex_item, llms, used), first_best(scores(regex_item, llms, used)))

\* The merge of one field that keeps the shorter of two values
merged_value_keeping_shorter(value, base_value, enh_value) ==
  IF ~Truthy(base_value) /\ Truthy(enh_value) THEN enh_value
  ELSE IF Truthy(base_value) /\ Truthy(enh_value)
  THEN (IF Len(str(base_value)) > Len(str(enh_value)) THEN enh_value ELSE base_value)
  ELSE value
\* lines 433-445: value is the field as the copy of the base item holds it
merged_value(value, base_value, enh_value) ==
  IF ~Truthy(base_value) /\ Truthy(enh_value) THEN enh_value
  ELSE IF Truthy(base_value) /\ Truthy(enh_value)
  THEN (IF Len(str(base_value)) > Len(str(enh_value)) THEN base_value ELSE enh_value)
  ELSE value
\* line 429
enhancement_fields ==
  {"fixture_type", "quantity", "model_number", "dimensions", "mounting_type", "spec_reference"}
\* A merge that goes through every field of the base item
_merge_every_field(base_item, enhancement_item) ==
  [f \in DOMAIN base_item |-> merged_value(base_item[f], Get(base_item, f), Get(enhancement_item, f))]
\* _merge_item_data
_merge_item_data(base_item, enhancement_item) ==
  [f \in DOMAIN base_item |->
     IF f \in enhancement_fields
     THEN merged_value(base_item[f], Get(base_item, f), Get(enhancement_item, f))
     ELSE base_item[f]]
\* lines 337-348: the regex item as it is appended, best_match_idx given
enriched_item(regex_item, llms, best_match_idx) ==
  IF best_match_idx # 0 THEN _merge_item_data(regex_item, llms[best_match_idx]) ELSE regex_item
\* line 346
used_with(used, best_match_idx) == IF best_match_idx # 0 THEN used \cup {best_match_idx} ELSE used
\* A second loop that appends every unused item
with_any_unused(merged, llms, used, j) == IF j \notin used THEN Append(merged, llms[j]) ELSE merged
\* lines 352-356: an unused item with a page number or a fixture type is appended
with_discovery(merged, llms, used, j) ==
  IF j \notin used /\ (Truthy(Get(llms[j], "page_number")) \/ Truthy(Get(llms[j], "fixture_type")))
  THEN Append(merged, llms[j]) ELSE merged

\* An item as extract_items builds it
regex_item_of(type, quantity, model, mounting, page) ==
  [fixture_type |-> type, quantity |-> quantity, model_number |-> model, dimensions |-> None,
   mounting_type |-> mounting, spec_reference |-> None, page_number |-> I(page),
   raw_text |-> type, line_number |-> I(1), table_number |-> Missing, row_number |-> Missing]
\* An item of an external response: any key may be absent
llm_item_of(type, quantity, model, dimensions, mounting, page) ==
  [fixture_type |-> type, quantity |-> quantity, model_number |-> model, dimensions |-> dimensions,
   mounting_type |-> mounting, spec_reference |-> Missing, page_number |-> page,
   raw_text |-> Missing, line_number |-> Missing, table_number |-> Missing, row_number |-> Missing]
RegexPool ==
  { regex_item_of(S("Valve"), None, None, None, 3),
    regex_item_of(S("Pump"), I(4), S("OM-141"), S("Wall-Mount"), 1),
    regex_item_of(None, S("31.1"), S("CH30"), None, 3),
    [row_start(2, 0, 2) EXCEPT !.fixture_type = S("Sink"), !.quantity = I(2)] }
LlmPool ==
  { llm_item_of(S("Valve"), Missing, S("VP-100"), Missing, Missing, I(3)),
    llm_item_of(S("pump"), S("12"), S("OM-141-A"), S("2 in"), S("wall"), Missing),
    llm_item_of(Missing, Missing, None, S("2 in"), Missing, I(3)),
    llm_item_of(S(""), I(0), Missing, S("1 in"), Missing, None),
    llm_item_of(Missing, I(2), S("om"), Missing, Missing, Missing),
    [llm_item_of(S("sink"), I(12), Missing, Missing, Missing, I(5))
       EXCEPT !.raw_text = S("Sink, 12"), !.line_number = I(9), !.table_number = I(4), !.row_number = I(4)] }
MaxRegex == 2
MaxLlm == 2
ListsOf(pool, n) == UNION {[1..k -> pool] : k \in 0..n}

MergeInit ==
  /\ pc = "regex_items"
  /\ regex_items \in ListsOf(RegexPool, MaxRegex)
  /\ llm_items \in ListsOf(LlmPool, MaxLlm)
  /\ merged_items = <<>> /\ used_llm_indices = {} /\ idx = 0
  /\ page_num = 0 /\ items = <<>>
  /\ NoItems /\ NoTables /\ NoExtract

\* lines 336-348: one regex item, merged with its match when it has one
MergeRegexItem ==
  /\ pc = "regex_items" /\ idx < Len(regex_items)
  /\ merged_items' = Append(merged_items,
       enriched_item(regex_items[idx + 1], llm_items, _find_best_match(regex_items[idx + 1], llm_items, used_llm_indices)))
  /\ used_llm_indices' = used_with(used_llm_indices, _find_best_match(regex_items[idx + 1], llm_items, used_llm_indices))
  /\ idx' = idx + 1
  /\ UNCHANGED <<pc, page_num, items, regex_items, llm_items, items_vars, tables_vars, extract_vars>>
\* lines 348-351: the first loop is over, the second starts
StartDiscoveries ==
  /\ pc = "regex_items" /\ idx = Len(regex_items)
  /\ pc' = "llm_items" /\ idx' = 0
  /\ UNCHANGED <<page_num, items, regex_items, llm_items, merged_items, used_llm_indices, items_vars, tables_vars, extract_vars>>
\* lines 351-356: one item of the external list
AppendDiscovery ==
  /\ pc = "llm_items" /\ idx < Len(llm_items)
  /\ merged_items' = with_discovery(merged_items, llm_items, used_llm_indices, idx + 1)
  /\ idx' = idx + 1
  /\ UNCHANGED <<pc, page_num, items, regex_items, llm_items, used_llm_indices, items_vars, tables_vars, extract_vars>>
\* line 358
ReturnMerged ==
  /\ pc = "llm_items" /\ idx = Len(llm_items)
  /\ pc' = "merged_returned"
  /\ UNCHANGED <<page_num, items, merge_vars, items_vars, tables_vars, extract_vars>>

MergeNext == MergeRegexItem \/ StartDiscoveries \/ AppendDiscovery \/ ReturnMerged
SpecMerge == MergeInit /\ [][MergeNext]_vars

(***************************************************************************)
(* ConstructionExtractionStrategy.extract: one page per step, then the     *)
(* external call, the enhancement and the validation                       *)
(***************************************************************************)
\* extract_items (construction.py lines 153-214) from line n + 1 on, cur
\* being the current item and its the items appended so far
RECURSIVE items_from(_, _, _, _, _)
items_from(lns, page, n, cur, its) ==
  IF n = Len(lns) THEN closed(cur, its)
  ELSE IF line_kind(strip(lns[n + 1]), cur) = "start"
  THEN items_from(lns, page, n + 1, new_item(detection[strip(lns[n + 1])].d, page, strip(lns[n + 1]), n), closed(cur, its))
  ELSE IF line_kind(strip(lns[n + 1]), cur) = "enrich"
  THEN items_from(lns, page, n + 1, enrich_with(cur, context_lines(lns, n)), its)
  ELSE items_from(lns, page, n + 1, cur, its)
extract_items(lns, page) == items_from(lns, page, 0, None, <<>>)
\* parse_tables (construction.py lines 760-829): the data rows of a table
\* from row k on, and the tables from table number t + 1 on
RECURSIVE rows_from(_, _, _, _, _)
rows_from(its, table, page, t, k) ==
  IF k > Len(table) - 1 THEN its ELSE rows_from(parsed_row(its, table, page, t, k), table, page, t, k + 1)
RECURSIVE tables_from(_, _, _, _)
tables_from(its, tabs, page, t) ==
  IF t = Len(tabs) THEN its
  ELSE tables_from(IF Len(tabs[t + 1]) < 2 THEN its ELSE rows_from(its, tabs[t + 1], page, t, 1), tabs, page, t + 1)
parse_tables(tabs, page) == tables_from(<<>>, tabs, page, 0)
\* extraction_service.py lines 64-78: the items of the text, then those of
\* the tables when the page has any
page_items(page_data) ==
  extract_items(page_data.text, page_data.page_num)
    \o (IF page_data.tables # <<>> THEN parse_tables(page_data.tables, page_data.page_num) ELSE <<>>)
\* Rows are tuples of cells, so a row that is None instead of a list is
\* written as the tuple of one value that no cell has
NoneRow == <<[t |-> "none_row", s |-> "", n |-> 0]>>
\* construction.py lines 774 and 804: enumerate(row) raises TypeError for a
\* data row that is None, in a table of two rows or more
parse_tables_raises(tabs) ==
  \E t \in DOMAIN tabs : Len(tabs[t]) >= 2 /\ \E k \in 2..Len(tabs[t]) : tabs[t][k] = NoneRow
\* extraction_service.py lines 71-76
page_raises(page_data) == page_data.tables # <<>> /\ parse_tables_raises(page_data.tables)

\* f[1] + ... + f[n]
RECURSIVE sum(_, _)
sum(f, n) == IF n = 0 THEN 0 ELSE f[n] + sum(f, n - 1)
\* len(page['text']): the lines, the '\n' between them and those at the end
text_len(page_data) ==
  sum([k \in DOMAIN page_data.text |-> Len(page_data.text[k])], Len(page_data.text))
    + (Len(page_data.text) - 1) + page_data.trailing_newlines
\* utils/helpers.py lines 64-65: len('\n\n'.join(texts))
combine_pages_text_len(pages) == sum([k \in DOMAIN pages |-> text_len(pages[k])], Len(pages)) + 2 * (Len(pages) - 1)
\* extraction_service.py line 284, as lengths:
\* full_text[:16000] if len(full_text) > 16000 else full_text
llm_text_budget == 16000
untruncated_len(full_text_len) == full_text_len
text_for_llm_len(full_text_len) == IF full_text_len > llm_text_budget THEN llm_text_budget ELSE full_text_len

\* _merge_regex_and_llm_items (lines 318-358) as a whole: the first loop
\* from regex item k + 1 on, then the second loop from external item j on
RECURSIVE merge_regex_items(_, _, _, _, _)
merge_regex_items(merged, used, regexs, llms, k) ==
  IF k = Len(regexs) THEN [merged |-> merged, used |-> used]
  ELSE merge_regex_items(
         Append(merged, enriched_item(regexs[k + 1], llms, _find_best_match(regexs[k + 1], llms, used))),
         used_with(used, _find_best_match(regexs[k + 1], llms, used)), regexs, llms, k + 1)
RECURSIVE append_discoveries(_, _, _, _)
append_discoveries(merged, llms, used, j) ==
  IF j > Len(llms) THEN merged ELSE append_discoveries(with_discovery(merged, llms, used, j), llms, used, j + 1)
discoveries_after(first_loop, llms) == append_discoveries(first_loop.merged, llms, first_loop.used, 1)
_merge_regex_and_llm_items(regexs, llms) == discoveries_after(merge_regex_items(<<>>, {}, regexs, llms, 0), llms)
\* lines 340, 355: .get on an item that is not a dict raises AttributeError,
\* in the first loop when there is a regex item, in the second otherwise
merge_raises(llms) == \E j \in DOMAIN llms : ~is_dict(llms[j])

\* line 287: the response is a dict with a list of items that is not empty
\* (.get on a response that is not a dict raises, which line 292 catches)
has_items(response) == response.kind = "dict" /\ response.items # <<>>
\* lines 306-307: the values of the dict other than None and ''
filled_fields(item) == Cardinality({f \in DOMAIN item : item[f] \notin {Missing, None, S("")}})
\* A comparison of the merged list with the regex list as a whole
merge_differs(merged, regexs) == merged # regexs
\* lines 301-314: an item was appended, or an item has more values than before
merge_changed(merged, regexs) ==
  \/ Len(merged) # Len(regexs)
  \/ \E k \in DOMAIN regexs : filled_fields(merged[k]) > filled_fields(regexs[k])
\* The second result of _enhance_with_llm for a call that reports success
\* whenever the response is a dict and the merge did not raise
llm_worked_unless_raised(regexs, response) ==
  response.kind = "dict" /\ ~merge_raises(response.items)
\* lines 90-91, 103 and 285-316: the second result of _enhance_with_llm, an
\* exception raised by parse giving False (line 294) and one raised by the
\* merge being caught by extract (line 103)
llm_actually_worked(regexs, response) ==
  /\ has_items(response)
  /\ ~merge_raises(response.items)
  /\ merge_changed(_merge_regex_and_llm_items(regexs, response.items), regexs)

\* models/construction.py lines 37-41: page_number is an int of 1 or more,
\* or a str that reads as one
valid_page_number(v) ==
  \/ v.t = "int" /\ v.n >= 1
  \/ v.t = "str" /\ match(all_digits_pattern, v.s, FALSE).ok /\ int_of(v.s) >= 1
\* lines 42-60: table_number, row_number and line_number are absent, None or
\* an int of 1 or more
valid_optional_number(v) == v.t \in {"missing", "none"} \/ (v.t = "int" /\ v.n >= 1)
\* lines 13-36 and 52-55: a str, None or absent (quantity may be an int)
valid_text(v) == v.t \in {"missing", "none", "str"}
valid_item(item) ==
  /\ valid_page_number(item.page_number)
  /\ \A f \in {"table_number", "row_number", "line_number"} : valid_optional_number(item[f])
  /\ \A f \in {"fixture_type", "model_number", "dimensions", "mounting_type", "spec_reference", "raw_text"} :
       valid_text(item[f])
\* lines 62-67 and 97-102
clean_text(v) == IF Truthy(v) THEN S(strip(v.s)) ELSE v
\* lines 69-88: a str with no '.' and no ',' that reads as an int becomes one
quantity_of_text(s) ==
  IF contains(s, ".") \/ contains(s, ",") THEN S(s)
  ELSE IF match(all_digits_pattern, s, FALSE).ok THEN I(int_of(s)) ELSE S(s)
clean_quantity(v) == IF v.t = "str" THEN quantity_of_text(strip(v.s)) ELSE v
\* lines 90-95
clean_model_number(v) == IF Truthy(v) THEN S(upper(strip(v.s))) ELSE v
\* ExtractedItem(**item) for a valid item: a field the dict lacks is None
ExtractedItem(item) ==
  [fixture_type |-> clean_text(Get(item, "fixture_type")), quantity |-> clean_quantity(Get(item, "quantity")),
   model_number |-> clean_model_number(Get(item, "model_number")), dimensions |-> clean_text(Get(item, "dimensions")),
   mounting_type |-> Get(item, "mounting_type"), spec_reference |-> Get(item, "spec_reference"),
   page_number |-> IF item.page_number.t = "str" THEN I(int_of(item.page_number.s)) ELSE item.page_number,
   raw_text |-> Get(item, "raw_text"), line_number |-> Get(item, "line_number"),
   table_number |-> Get(item, "table_number"), row_number |-> Get(item, "row_number")]
\* extraction_service.py lines 161-173: the same values, page_number 1 when
\* the dict has no page_number
minimal_item(item) == [item EXCEPT !.page_number = IF @ = Missing THEN I(1) ELSE @]
\* lines 157-173: the item as it is when it is valid, the minimal one otherwise
validated(item) == IF valid_item(item) THEN ExtractedItem(item) ELSE ExtractedItem(minimal_item(item))
\* lines 153-174, when no item makes the minimal ExtractedItem raise
_validate_items(its) == [k \in DOMAIN its |-> validated(its[k])]
\* line 161: the minimal ExtractedItem raises too, outside any try
validation_raises(its) == \E k \in DOMAIN its : ~valid_item(its[k]) /\ ~valid_item(minimal_item(its[k]))

\* What the page provider gives: pages numbered from 1, the text as its
\* lines (text.split('\n')), and the tables of the page
SizeTable == <<SizeHeader, <<S(" "), None, S(""), S("2 in")>>, <<S("Pump"), S("3"), S("CP-22")>>>>
PageTexts == {<<"">>, <<"Valve">>, <<"Pump", "OM-141">>}
PageTables == {<<>>, <<SizeTable>>}
\* A table with a row that is None instead of a list of cells
BrokenTable == <<ItemHeader, NoneRow>>
\* The most '\n' characters a page text ends with.  They only add empty
\* lines after the last line of the text (construction.py lines 172-174
\* skip them, lines 202-208 skip an empty context line), so a page keeps
\* their number beside its lines.
MaxBlankLines == 16000
PageData ==
  [text : PageTexts, tables : PageTables, trailing_newlines : {0}]
    \cup {[text |-> <<"Valve">>, tables |-> <<>>, trailing_newlines |-> n] : n \in {MaxBlankLines - 5, MaxBlankLines}}
    \cup {[text |-> <<"Valve">>, tables |-> <<BrokenTable>>, trailing_newlines |-> 0]}
numbered(pages) ==
  [k \in DOMAIN pages |->
     [page_num |-> k, text |-> pages[k].text, tables |-> pages[k].tables,
      trailing_newlines |-> pages[k].trailing_newlines]]
Documents == {numbered(pages) : pages \in UNION {[1..n -> PageData] : n \in 1..MaxPage}}
\* What llm_parser.parse gives: it raises, it returns something that is not
\* a dict, or a dict whose items are dicts with any key absent, or not dicts
ResponseItems ==
  { llm_item_of(S("Valve"), Missing, S("VP-100"), Missing, Missing, I(1)),
    llm_item_of(Missing, Missing, Missing, S("2 in"), Missing, I(1)),
    llm_item_of(S("Sink"), S("2"), Missing, Missing, Missing, Missing),
    llm_item_of(S("Sink"), Missing, Missing, Missing, Missing, S("A-1")),
    S("text") }
Responses ==
  {[kind |-> "raises", items |-> <<>>], [kind |-> "text", items |-> <<>>]}
    \cup {[kind |-> "dict", items |-> its] : its \in ListsOf(ResponseItems, MaxLlm)}

ExtractInit ==
  /\ pc = "pages"
  /\ pages_data \in Documents
  /\ llm_parser \in BOOLEAN
  /\ page_idx = 0 /\ all_items = <<>> /\ enhanced = NoResponse /\ llm_success = FALSE /\ output = None
  /\ NoCall /\ NoService /\ NoSpinner
  /\ page_num = 0 /\ items = <<>>
  /\ NoItems /\ NoTables /\ NoMerge

\* lines 63-78: one page
ExtractPage ==
  /\ pc = "pages" /\ page_idx < Len(pages_data) /\ ~page_raises(pages_data[page_idx + 1])
  /\ all_items' = all_items \o page_items(pages_data[page_idx + 1])
  /\ page_idx' = page_idx + 1
  /\ UNCHANGED <<pc, page_num, items, pages_data, llm_parser, enhanced, llm_success, output,
                 call_vars, service_vars, spinner_vars, items_vars, tables_vars, merge_vars>>
\* lines 84-86, 119-120: no parser
SkipLlm ==
  /\ pc = "pages" /\ page_idx = Len(pages_data) /\ ~llm_parser
  /\ pc' = "validate"
  /\ UNCHANGED <<page_num, items, extract_vars, items_vars, tables_vars, merge_vars>>
\* lines 86-90 and 285: the call, whose outcome extract has no hand in
CallLlm ==
  /\ pc = "pages" /\ page_idx = Len(pages_data) /\ llm_parser
  /\ llm_calls' = llm_calls + 1
  /\ text_for_llm' = text_for_llm_len(combine_pages_text_len(pages_data))
  /\ pc' = "parse"
  /\ UNCHANGED <<page_num, items, pages_data, llm_parser, page_idx, all_items, enhanced, llm_success, output,
                 service_vars, spinner_vars, items_vars, tables_vars, merge_vars>>
\* line 285: parse returns or raises.  The call is synchronous and neither
\* line 285 nor the parsers (llm.py lines 76-83 and 145-151) bound its
\* duration: this step is the only way out of "parse"
LlmReturns ==
  /\ pc = "parse"
  /\ enhanced' \in Responses
  /\ pc' = "enhance"
  /\ UNCHANGED <<page_num, items, pages_data, llm_parser, page_idx, all_items, llm_success, output,
                 call_vars, service_vars, spinner_vars, items_vars, tables_vars, merge_vars>>
\* lines 91-93 and 297-316: the merged items replace the regex items
EnhanceWorked ==
  /\ pc = "enhance" /\ llm_actually_worked(all_items, enhanced)
  /\ all_items' = _merge_regex_and_llm_items(all_items, enhanced.items)
  /\ llm_success' = TRUE
  /\ pc' = "validate"
  /\ UNCHANGED <<page_num, items, pages_data, llm_parser, page_idx, enhanced, output,
                 call_vars, service_vars, spinner_vars, items_vars, tables_vars, merge_vars>>
\* lines 99-118, 291, 294 and 314: the regex items are kept
EnhanceFailed ==
  /\ pc = "enhance" /\ ~llm_actually_worked(all_items, enhanced)
  /\ llm_success' = FALSE
  /\ pc' = "validate"
  /\ UNCHANGED <<page_num, items, pages_data, llm_parser, page_idx, all_items, enhanced, output,
                 call_vars, service_vars, spinner_vars, items_vars, tables_vars, merge_vars>>
\* lines 123-151
ReturnOutput ==
  /\ pc = "validate" /\ ~validation_raises(all_items)
  /\ output' = [items |-> _validate_items(all_items), _llm_used |-> llm_success, _llm_requested |-> llm_parser]
  /\ pc' = "returned"
  /\ UNCHANGED <<page_num, items, pages_data, llm_parser, page_idx, all_items, enhanced, llm_success,
                 call_vars, service_vars, spinner_vars, items_vars, tables_vars, merge_vars>>
\* lines 64-76 are inside no try: the exception of a page leaves extract
\* with the pages after it unread
PageRaises ==
  /\ pc = "pages" /\ page_idx < Len(pages_data) /\ page_raises(pages_data[page_idx + 1])
  /\ all_items' = all_items \o extract_items(pages_data[page_idx + 1].text, pages_data[page_idx + 1].page_num)
  /\ pc' = "page_raised"
  /\ UNCHANGED <<page_num, items, pages_data, llm_parser, page_idx, enhanced, llm_success, output,
                 call_vars, service_vars, spinner_vars, items_vars, tables_vars, merge_vars>>
\* lines 123 and 161: the exception leaves extract
RaiseValidation ==
  /\ pc = "validate" /\ validation_raises(all_items)
  /\ pc' = "raised"
  /\ UNCHANGED <<page_num, items, extract_vars, items_vars, tables_vars, merge_vars>>

ExtractNext ==
  \/ ExtractPage \/ PageRaises \/ SkipLlm \/ CallLlm \/ LlmReturns
  \/ EnhanceWorked \/ EnhanceFailed \/ ReturnOutput \/ RaiseValidation
SpecExtract == ExtractInit /\ [][ExtractNext]_vars
\* extract runs in one thread: at a label where the next step is its own
\* ("pages", "enhance", "validate") that step is enabled and is taken, and
\* it moves pc or page_idx.  At "parse" the next step is the return of the
\* external call; nothing in the code makes it happen, so it gets no
\* fairness.
Labels == {"pages", "parse", "enhance", "validate", "returned", "raised", "page_raised"}
OwnLabels == {"pages", "enhance", "validate"}
position == <<pc, page_idx>>
OwnStep == pc \in OwnLabels /\ pc' \in Labels /\ page_idx' \in 0..MaxPage
SpecExtractFair == SpecExtract /\ WF_position(OwnStep)

(***************************************************************************)
(* ExtractionServiceFactory.create_construction_service, then              *)
(* ExtractionService.extract with the strategy it built                    *)
(***************************************************************************)
\* extraction_service.py lines 619-651: a parser is built for 'openai' or
\* 'claude' when the environment holds the key and the parser's __init__
\* does not raise (llm.py lines 30-35 and 99-104: ImportError without the
\* library); None is returned in every other case
_create_llm_parser(type, key, installed) == type \in {"openai", "claude"} /\ key /\ installed
\* lines 590-592: TRUE for a parser, FALSE for None
created_parser(type, key, installed) == IF type # "" THEN _create_llm_parser(type, key, installed) ELSE FALSE
\* What a caller may ask for: no enhancement, one of the two parsers, or a
\* name the factory does not know
LlmTypes == {"", "openai", "claude", "gemini"}

ServiceInit ==
  /\ pc = "create"
  /\ llm_type \in LlmTypes /\ api_key \in BOOLEAN /\ library_installed \in BOOLEAN
  /\ pages_data \in Documents
  /\ llm_parser = FALSE
  /\ page_idx = 0 /\ all_items = <<>> /\ enhanced = NoResponse /\ llm_success = FALSE /\ output = None
  /\ NoCall /\ NoSpinner
  /\ page_num = 0 /\ items = <<>>
  /\ NoItems /\ NoTables /\ NoMerge

\* lines 587-599: the strategy is built with the parser, or with None
CreateService ==
  /\ pc = "create"
  /\ llm_parser' = created_parser(llm_type, api_key, library_installed)
  /\ pc' = "pages"
  /\ UNCHANGED <<page_num, items, pages_data, page_idx, all_items, enhanced, llm_success, output,
                 call_vars, service_vars, spinner_vars, items_vars, tables_vars, merge_vars>>

ServiceNext == CreateService \/ ExtractNext
SpecService == ServiceInit /\ [][ServiceNext]_vars

(***************************************************************************)
(* PDFTextExtractor.extract_text and _extract_with_ocr: the main thread    *)
(* and the spinner threads it starts, one per page                         *)
(***************************************************************************)
MaxSpinnerPages == 3
\* Thread.join(timeout): it returns when the thread has ended and, with a
\* timeout, when the time has passed (timeouts in milliseconds)
join_without_timeout(thread_alive, timeout) == ~thread_alive
join_returns(thread_alive, timeout) == ~thread_alive \/ timeout # None

SpinnerInit ==
  /\ pc = "next_page"
  /\ use_ocr \in BOOLEAN /\ show_progress \in BOOLEAN /\ total_pages \in 1..MaxSpinnerPages
  /\ pages_done = 0 /\ _stop_spinner = FALSE /\ _spinner_thread = 0 /\ alive = {}
  /\ pages_data = <<>> /\ llm_parser = FALSE /\ page_idx = 0 /\ all_items = <<>>
  /\ enhanced = NoResponse /\ llm_success = FALSE /\ output = None
  /\ NoCall /\ NoService
  /\ page_num = 0 /\ items = <<>>
  /\ NoItems /\ NoTables /\ NoMerge

\* What the steps of the extractor leave alone
spinner_frame ==
  <<page_num, items, pages_data, llm_parser, page_idx, all_items, enhanced, llm_success, output,
    call_vars, service_vars, items_vars, tables_vars, merge_vars, use_ocr, show_progress, total_pages>>

\* pdf_text_extractor.py lines 128-131: the next page of the regular path
\* with progress shown; the Event is set for any previous spinner
StopPrevious ==
  /\ pc = "next_page" /\ pages_done < total_pages /\ show_progress /\ ~use_ocr
  /\ _stop_spinner' = TRUE
  /\ pc' = "join_previous"
  /\ UNCHANGED <<spinner_frame, pages_done, _spinner_thread, alive>>
\* lines 132-133: join(timeout=0.1) when there is a thread and it is alive
JoinPrevious ==
  /\ pc = "join_previous"
  /\ (_spinner_thread # 0 /\ _spinner_thread \in alive) => join_returns(_spinner_thread \in alive, I(100))
  /\ pc' = "start_spinner"
  /\ UNCHANGED <<spinner_frame, pages_done, _stop_spinner, _spinner_thread, alive>>
\* lines 256-257 of the OCR path, which sets and joins nothing before
StartOcrPage ==
  /\ pc = "next_page" /\ pages_done < total_pages /\ show_progress /\ use_ocr
  /\ pc' = "start_spinner"
  /\ UNCHANGED <<spinner_frame, pages_done, _stop_spinner, _spinner_thread, alive>>
\* lines 136-144 and 258-266: the Event is cleared and a new daemon thread
\* is started for the page
StartSpinner ==
  /\ pc = "start_spinner"
  /\ _stop_spinner' = FALSE
  /\ _spinner_thread' = _spinner_thread + 1
  /\ alive' = alive \cup {_spinner_thread + 1}
  /\ pc' = "page"
  /\ UNCHANGED <<spinner_frame, pages_done>>
\* lines 146-206 and 268-274: the page is read and appended
ProcessPage ==
  /\ \/ pc = "page"
     \/ pc = "next_page" /\ pages_done < total_pages /\ ~show_progress
  /\ pages_done' = pages_done + 1
  /\ pc' = IF show_progress THEN "stop_spinner" ELSE "next_page"
  /\ UNCHANGED <<spinner_frame, _stop_spinner, _spinner_thread, alive>>
\* lines 208-209 and 276-277
StopSpinner ==
  /\ pc = "stop_spinner"
  /\ _stop_spinner' = TRUE
  /\ pc' = "join_spinner"
  /\ UNCHANGED <<spinner_frame, pages_done, _spinner_thread, alive>>
\* lines 210-214 and 278-282: join(timeout=0.3)
JoinSpinner ==
  /\ pc = "join_spinner"
  /\ _spinner_thread # 0 => join_returns(_spinner_thread \in alive, I(300))
  /\ pc' = "next_page"
  /\ UNCHANGED <<spinner_frame, pages_done, _stop_spinner, _spinner_thread, alive>>
\* lines 217 and 287
ReturnPages ==
  /\ pc = "next_page" /\ pages_done = total_pages
  /\ pc' = "pages_returned"
  /\ UNCHANGED <<spinner_frame, pages_done, _stop_spinner, _spinner_thread, alive>>
\* line 146: page.extract_text() is inside no try, so what it raises leaves
\* the loop, the "with" of line 99 and extract_text, past lines 208-214
ReadRaises ==
  /\ ~use_ocr
  /\ \/ pc = "page"
     \/ pc = "next_page" /\ pages_done < total_pages /\ ~show_progress
  /\ pc' = "read_raised"
  /\ UNCHANGED <<spinner_frame, pages_done, _stop_spinner, _spinner_thread, alive>>
\* line 268: pytesseract.image_to_string is inside no try, so what it raises
\* leaves _extract_with_ocr past lines 276-279; extract_text catches it
\* (lines 84-96) and, pages_data being empty, reads the document again
\* from its first page through the regular loop
OcrRaises ==
  /\ use_ocr
  /\ \/ pc = "page"
     \/ pc = "next_page" /\ pages_done < total_pages /\ ~show_progress
  /\ use_ocr' = FALSE
  /\ pages_done' = 0
  /\ pc' = "next_page"
  /\ UNCHANGED <<page_num, items, pages_data, llm_parser, page_idx, all_items, enhanced, llm_success, output,
                 call_vars, service_vars, items_vars, tables_vars, merge_vars, show_progress, total_pages,
                 _stop_spinner, _spinner_thread, alive>>
\* lines 107-112 and 248-253: a spinner thread tests the Event between two
\* frames and ends when it is set
SpinnerEnds(k) ==
  /\ k \in alive /\ _stop_spinner
  /\ alive' = alive \ {k}
  /\ UNCHANGED <<pc, spinner_frame, pages_done, _stop_spinner, _spinner_thread>>

MainThread ==
  \/ StopPrevious \/ JoinPrevious \/ StartOcrPage \/ StartSpinner
  \/ ProcessPage \/ StopSpinner \/ JoinSpinner \/ ReturnPages
SpinnerThreads == \E k \in 1..(2 * MaxSpinnerPages) : SpinnerEnds(k)
SpinnerNext == MainThread \/ SpinnerThreads
\* The main thread runs, and a join with a timeout returns when the time
\* has passed.  A spinner thread may stall: it gets no fairness.
SpecSpinner == SpinnerInit /\ [][SpinnerNext]_vars /\ WF_vars(MainThread)
\* The same with the reading of a page allowed to raise
RaisingNext == SpinnerNext \/ ReadRaises \/ OcrRaises
SpecSpinnerRaising == SpinnerInit /\ [][RaisingNext]_vars

(***************************************************************************)
(* Properties of extract_items                                             *)
(***************************************************************************)
\* The items appended and the item being accumulated
started_items == {items[k] : k \in DOMAIN items} \cup (IF current_item = None THEN {} ELSE {current_item})
\* What the stages of _detect_item_line find in each line of the pool
detected == [line \in StrippedLines |-> detected_fields(line)]
keyword == [line \in StrippedLines |-> best_match(line)]
detected_model == [line \in StrippedLines |-> detect_model(line)]

\* C2: no item returned by extract_items has the same decimal in quantity
\* and in spec_reference, whether the line that started the item or a line
\* that enriched it set them.
C2_DecimalNotInBoth ==
  \A k \in DOMAIN items :
    ~ /\ items[k].quantity.t = "str"
      /\ contains(items[k].quantity.s, ".")
      /\ items[k].spec_reference = items[k].quantity

\* The lines of the pool an exclusion rule matches: an exclude pattern, an
\* instruction phrase or verb at the start, an instruction indicator, or a
\* drawing reference with no model, quantity or dimensions
ExcludedLines ==
  { line \in StrippedLines :
      \/ matches_exclude_pattern(line)
      \/ starts_with_instruction_phrase(line)
      \/ starts_with_action_verb(line)
      \/ is_instruction(line)
      \/ is_drawing_reference(line) /\ ~drawing_reference_kept(drawing_reference_item(line, detected[line])) }
\* C3: no item, appended or being accumulated, has the line number of a
\* line that an exclusion rule matches.
C3_ExcludedLineStartsNoItem ==
  \A n \in DOMAIN lines :
    strip(lines[n]) \in ExcludedLines => \A item \in started_items : item.line_number # I(n)
\* An excluded line that holds a fixture keyword was passed over and the
\* line after it started the one item returned
C3_Witness ==
  /\ pc = "items_returned" /\ Len(lines) = 2
  /\ strip(lines[1]) \in ExcludedLines /\ contains(lower(lines[1]), "valve")
  /\ Len(items) = 1 /\ items[1].line_number = I(2)

\* The unit words of the quantity patterns (lines 59-60)
UnitWords == {"ea", "each", "pcs", "pieces", "pc", "unit", "units", "lf", "ft", "feet"}
\* A word that is a unit, or digits followed by a unit
is_unit_word(w) == \E u \in UnitWords : endswith(w, u) /\ match(all_digits_pattern, SubSeq(w, 1, Len(w) - Len(u)) \o "0", FALSE).ok
has_unit_word(words) == \E j \in DOMAIN words : is_unit_word(words[j])
\* The lines of the pool whose only evidence is a number with no unit: a
\* quantity is found; no fixture keyword, model, mounting or spec is
BareQuantityLines ==
  { line \in StrippedLines \ ExcludedLines :
      /\ Truthy(Get(detected[line], "quantity"))
      /\ keyword[line] = ""
      /\ ~Truthy(Get(detected[line], "model"))
      /\ ~Truthy(Get(detected[line], "mounting"))
      /\ ~Truthy(Get(detected[line], "spec"))
      /\ ~has_unit_word(split(lower(line))) }
\* C4: a line whose only evidence is a bare quantity number starts no item.
C4_BareQuantityStartsNoItem ==
  \A n \in DOMAIN lines :
    strip(lines[n]) \in BareQuantityLines => \A item \in started_items : item.line_number # I(n)

\* C5: the sample line alone on page 2 gives one item with the fixture type
\* Valve Package, the model number OM-141, a wall-mount mounting type, the
\* fractional diameter as dimensions and the page number 2.
C5_SampleLine ==
  (pc = "items_returned" /\ lines = <<"2 VALVE PACKAGE (OM-141), Wall-Mounted, 1 1/2\"~">> /\ page_num = 2)
    => /\ Len(items) = 1
       /\ contains(str(items[1].fixture_type), "Valve Package")
       /\ items[1].model_number = S("OM-141")
       /\ contains(lower(str(items[1].mounting_type)), "wall")
       /\ contains(lower(str(items[1].mounting_type)), "mount")
       /\ contains(str(items[1].dimensions), "1 1/2\"~")
       /\ items[1].page_number = I(2)

\* C6: the model stage finds no model in the line "L01" and finds the model
\* L01 in the line "PN: L01".
C6_LabeledLocationCode ==
  \A n \in 1..line_num :
    /\ strip(lines[n]) = "L01" => detected_model["L01"] = Missing
    /\ strip(lines[n]) = "PN: L01" => detected_model["PN: L01"] = S("L01")

(***************************************************************************)
(* Properties of parse_tables                                              *)
(***************************************************************************)
\* Data row k of table number t has been gone through
row_done(t, k) == t <= table_idx \/ (t = table_idx + 1 /\ k <= row_idx)
\* The columns of the table whose header maps to the field
columns_of(table, field) == {c \in DOMAIN table[1] : header_map(table)[c] = field}
\* The header maps one column to each of fixture_type, quantity, model_number
maps_the_three(table) ==
  \A f \in {"fixture_type", "quantity", "model_number"} : Cardinality(columns_of(table, f)) = 1
\* The trimmed text of the row's cell under the field ("" for no text)
cell_under(table, k, f) ==
  LET c == CHOOSE c \in columns_of(table, f) : TRUE
  IN IF c <= Len(table[k + 1]) THEN cell_text(table[k + 1][c]) ELSE ""
text_or_none(s) == IF s = "" THEN None ELSE S(s)
\* The first integer embedded in a text (-1 for a text with no digit)
first_integer(s) ==
  LET m == search(embedded_integer_pattern, s, FALSE) IN IF m.ok THEN int_of(group0(m, s)) ELSE -1
\* The items with table number t and row number k
items_of_row(t, k) == {j \in DOMAIN items : items[j].table_number = I(t) /\ items[j].row_number = I(k)}
\* Row k of table number t gave one item, which carries the row's cells
one_item_of_row(t, k) ==
  /\ Cardinality(items_of_row(t, k)) = 1
  /\ \A j \in items_of_row(t, k) :
       /\ Get(items[j], "fixture_type") = text_or_none(cell_under(tables[t], k, "fixture_type"))
       /\ Get(items[j], "model_number") = text_or_none(cell_under(tables[t], k, "model_number"))
       /\ first_integer(cell_under(tables[t], k, "quantity")) >= 0
            => items[j].quantity = I(first_integer(cell_under(tables[t], k, "quantity")))
       /\ items[j].page_number = I(page_num)
\* The row has a fixture type, a model number or a quantity other than 0
row_accepted(table, k) ==
  \/ cell_under(table, k, "fixture_type") # ""
  \/ cell_under(table, k, "model_number") # ""
  \/ first_integer(cell_under(table, k, "quantity")) > 0

is_empty(v) == ~Truthy(v)
\* The value the rule of the merge gives a field: the external value when
\* the regex value is empty and the external one is not; of two values
\* present, one whose string form is at least as long as the other's, and
\* the regex value when its string form is the longer; the regex value
\* otherwise
follows_rule(out, regex_value, external_value) ==
  IF is_empty(regex_value) /\ ~is_empty(external_value) THEN out = external_value
  ELSE IF ~is_empty(regex_value) /\ ~is_empty(external_value)
  THEN /\ out \in {regex_value, external_value}
       /\ Len(str(out)) >= Len(str(regex_value)) /\ Len(str(out)) >= Len(str(external_value))
       /\ Len(str(regex_value)) > Len(str(external_value)) => out = regex_value
  ELSE out = regex_value
ValveOfRegex == regex_item_of(S("Valve"), None, None, None, 3)
ValveOfLlm == llm_item_of(S("Valve"), Missing, S("VP-100"), Missing, Missing, I(3))
\* C8: each step that merges a regex item with its match gives each of the
\* six fields the value the rule states and leaves every other field as the
\* regex item has it; the Valve of the example gets the model number VP-100.
C8_MergeItemData ==
  [][ (pc = "regex_items" /\ idx < Len(regex_items)
         /\ _find_best_match(regex_items[idx + 1], llm_items, used_llm_indices) # 0)
      => LET regex_item == regex_items[idx + 1]
             llm_item == llm_items[_find_best_match(regex_item, llm_items, used_llm_indices)]
             merged == merged_items'[idx + 1]
         IN /\ \A f \in enhancement_fields : follows_rule(Get(merged, f), Get(regex_item, f), Get(llm_item, f))
            /\ \A f \in DOMAIN regex_item \ enhancement_fields : merged[f] = regex_item[f]
            /\ (regex_item = ValveOfRegex /\ llm_item = ValveOfLlm)
                 => /\ merged.fixture_type = S("Valve") /\ merged.model_number = S("VP-100")
                    /\ merged.page_number = I(3) ]_vars
\* The Valve of the example and a Pump were merged with their matches: the
\* Valve got the external model number, the Pump the longer external model
\* number and quantity and kept its longer mounting type
C8_Witness ==
  /\ pc = "merged_returned"
  /\ regex_items = <<ValveOfRegex, regex_item_of(S("Pump"), I(4), S("OM-141"), S("Wall-Mount"), 1)>>
  /\ llm_items = <<ValveOfLlm, llm_item_of(S("pump"), S("12"), S("OM-141-A"), S("2 in"), S("wall"), Missing)>>
  /\ Len(merged_items) = 2
  /\ merged_items[1].fixture_type = S("Valve") /\ merged_items[1].model_number = S("VP-100")
  /\ merged_items[1].page_number = I(3)
  /\ merged_items[2].model_number = S("OM-141-A") /\ merged_items[2].quantity = S("12")
  /\ merged_items[2].mounting_type = S("Wall-Mount") /\ merged_items[2].dimensions = S("2 in")

(***************************************************************************)
(* Properties of extract                                                   *)
(***************************************************************************)
\* A value other than None and ''
has_value(v) == v \notin {Missing, None, S("")}
\* C1: every item of the list extract returns has a fixture type, a model
\* number or a quantity that is not empty.
C1_EveryItemHasContent ==
  pc = "returned"
    => \A k \in DOMAIN output.items :
         \/ has_value(output.items[k].fixture_type)
         \/ has_value(output.items[k].model_number)
         \/ has_value(output.items[k].quantity)

\* The response whose list of items is empty
EmptyResponse == [kind |-> "dict", items |-> <<>>]
\* C9: when the external call gives an empty list of items, the enhancement
\* leaves the list of items as it is, item for item, and reports no
\* success, and the output extract then returns has _llm_used False.
C9_EmptyListIsNoOp ==
  [][ enhanced = EmptyResponse
        => /\ pc = "enhance" => (all_items' = all_items /\ llm_success' = FALSE /\ pc' = "validate")
           /\ pc' = "returned" => (output'._llm_used = FALSE /\ Len(output'.items) = Len(all_items)) ]_vars
\* Two pages gave three items, the external call gave an empty list, and
\* extract returned the three items with _llm_used False
C9_Witness ==
  /\ pc = "returned" /\ enhanced = EmptyResponse /\ llm_parser
  /\ Len(pages_data) = 2 /\ pages_data[1].text = <<"Valve">> /\ pages_data[2].text = <<"Pump", "OM-141">>
  /\ pages_data[2].tables = <<SizeTable>>
  /\ all_items = page_items(pages_data[1]) \o page_items(pages_data[2])
  /\ Len(output.items) = Len(all_items) /\ Len(all_items) >= 3
  /\ output.items[1].fixture_type = S("Valve")
  /\ output._llm_used = FALSE /\ output._llm_requested = TRUE

\* C10: whatever the external call does, extract does not raise.
C10_ExtractNeverRaises == pc # "raised"

(***************************************************************************)
(* Properties of the service                                               *)
(***************************************************************************)
\* C11: when the caller asked for an llm_type and the output is regex-only
\* (_llm_used is False), the output says so: _llm_requested is True.
C11_DegradationReported ==
  (pc = "returned" /\ llm_type # "" /\ ~output._llm_used) => output._llm_requested

(***************************************************************************)
(* Properties of _validate_items                                           *)
(***************************************************************************)
ProvenanceFields == {"raw_text", "line_number", "table_number", "row_number"}
\* the page_number of the validated record: the item's own, 1 when the item
\* has none
kept_page_number(item) ==
  IF item.page_number = Missing THEN I(1)
  ELSE IF item.page_number.t = "str" THEN I(int_of(item.page_number.s)) ELSE item.page_number
\* C12: the validation of extract ends by returning one record per item of
\* the validated list, in the same order, each with the page_number and the
\* provenance fields of its item; it never ends by raising.
C12_ValidateKeepsEveryItem ==
  pc \in {"returned", "raised"} =>
    /\ output # None
    /\ Len(output.items) = Len(all_items)
    /\ \A k \in DOMAIN all_items :
         /\ output.items[k].page_number = kept_page_number(all_items[k])
         /\ \A f \in ProvenanceFields : output.items[k][f] = Get(all_items[k], f)

C14_ExtractLeavesTheCall == (pc = "parse") ~> (pc # "parse")

(***************************************************************************)
(* Properties of the external call                                         *)
(***************************************************************************)
\* C15: during one extract, parse is called at most once, also after it
\* raised or gave nothing usable, and the text it is given is the combined
\* text of the pages cut to 16000 characters.
C15_OneCallOnTruncatedText ==
  /\ llm_calls <= 1
  /\ text_for_llm <= 16000
  /\ llm_calls = 1 =>
       text_for_llm = (IF combine_pages_text_len(pages_data) > 16000 THEN 16000
                       ELSE combine_pages_text_len(pages_data))
  /\ pc \in {"parse", "enhance"} => llm_calls = 1
  /\ pc \in {"validate", "returned", "raised"} => llm_calls = (IF llm_parser THEN 1 ELSE 0)
\* Two pages whose combined text is longer than the budget: the call was
\* made once with 16000 characters, it raised, and extract returned
C15_Witness ==
  /\ pc = "returned" /\ enhanced.kind = "raises"
  /\ Len(pages_data) = 2 /\ combine_pages_text_len(pages_data) > 16000
  /\ llm_calls = 1 /\ text_for_llm = 16000
  /\ output._llm_used = FALSE

(***************************************************************************)
(* Properties of PDFTextExtractor.extract_text                             *)
(***************************************************************************)
\* C16: extract_text and _extract_with_ocr read every page and return,
\* whatever the spinner threads do, also when none of them ever sees the
\* stop signal.
C16_ExtractTextReturns == <>(pc = "pages_returned" /\ pages_done = total_pages)
\* Every page was read and the pages were returned while the spinner
\* thread of every page is still alive
C16_Witness ==
  /\ pc = "pages_returned" /\ show_progress /\ total_pages = MaxSpinnerPages
  /\ pages_done = total_pages /\ alive = 1..total_pages

(***************************************************************************)
(* Properties of the accumulator of extract_items                          *)
(***************************************************************************)
\* C17: while an item is being accumulated, a line that an exclusion rule
\* matches leaves the accumulator as it is: the current item and the list
\* of items are the same after the line as before it.
C17_ExcludedLineLeavesItem ==
  [][ (/\ pc = "lines" /\ line_num < Len(lines) /\ line_num' = line_num + 1
       /\ current_item # None
       /\ strip(lines[line_num + 1]) # ""
       /\ is_excluded(strip(lines[line_num + 1])))
        => (current_item' = current_item /\ items' = items) ]_vars

\* The fields _enrich_item may fill
EnrichedFields == {"quantity", "model_number", "dimensions", "mounting_type", "spec_reference"}
\* The field holds a value
present(v) == v \notin {None, Missing}
\* The value of field f in the first of the context lines that offers one
RECURSIVE first_offer(_, _)
first_offer(f, ctx) ==
  IF ctx = <<>> THEN Missing
  ELSE IF Head(ctx) # "" /\ enrichments[Head(ctx)][f] # Missing THEN enrichments[Head(ctx)][f]
  ELSE first_offer(f, Tail(ctx))
\* C18: a line that enriches the current item leaves every field that
\* holds a value as it is, and gives a field that holds none the value of
\* the first of the previous, the current and the next line that offers one.
C18_EnrichmentOnlyFillsMissing ==
  [][ (/\ pc = "lines" /\ line_num < Len(lines) /\ line_num' = line_num + 1
       /\ current_item # None
       /\ strip(lines[line_num + 1]) # ""
       /\ ~detection[strip(lines[line_num + 1])].ok)
        => \A f \in EnrichedFields \cup {"fixture_type"} :
             IF present(current_item[f]) THEN current_item'[f] = current_item[f]
             ELSE f \in EnrichedFields =>
                    current_item'[f] = (IF first_offer(f, context_lines(lines, line_num)) = Missing
                                        THEN current_item[f]
                                        ELSE first_offer(f, context_lines(lines, line_num))) ]_vars

\* C19: every item of extract_items keeps what it was seeded with: the page
\* number given to extract_items, the 1-based number of the line that
\* started it, and that line as raw_text.
C19_ProvenanceKept ==
  \A item \in started_items :
    /\ item.page_number = I(page_num)
    /\ item.line_number.t = "int" /\ item.line_number.n \in 1..Len(lines)
    /\ item.raw_text = S(strip(lines[item.line_number.n]))

(***************************************************************************)
(* Properties of the strong indicators of _detect_item_line                *)
(***************************************************************************)
\* The four strong indicators, read from what the stages find in the line:
\* a fixture keyword; a quantity with a model; a model with a mounting
\* type, a spec reference or a fixture type; a quantity with a unit word
has_strong_indicator(line) ==
  \/ keyword[line] # ""
  \/ Truthy(Get(detected[line], "quantity")) /\ Truthy(Get(detected[line], "model"))
  \/ /\ Truthy(Get(detected[line], "model"))
     /\ \/ Truthy(Get(detected[line], "mounting"))
        \/ Truthy(Get(detected[line], "spec"))
        \/ Truthy(Get(detected[line], "type"))
  \/ Truthy(Get(detected[line], "quantity")) /\ has_unit_word(split(lower(line)))
\* C20: the line that started an item, appended or being accumulated, has
\* one of the four strong indicators.
C20_ItemsStartOnStrongIndicators ==
  \A item \in started_items : has_strong_indicator(strip(lines[item.line_number.n]))

(***************************************************************************)
(* Properties of the quantity stage of _detect_item_line                   *)
(***************************************************************************)
\* The quantity rules in the order of priority the catalog is described
\* with: the two label rules, the two unit rules, the two parenthesis
\* rules, the decimal rule, the bare short number
RulePriority == <<1, 2, 3, 4, 6, 7, 5, 8>>
\* The value of the first rule, from place k of the priority order on,
\* that matches the line
RECURSIVE value_by_priority(_, _)
value_by_priority(line, k) ==
  IF k > Len(RulePriority) THEN Missing
  ELSE IF search(quantity_patterns[RulePriority[k]], line, TRUE).ok
  THEN quantity_value(group(search(quantity_patterns[RulePriority[k]], line, TRUE), line, 1))
  ELSE value_by_priority(line, k + 1)
\* C21: the quantity of a line that starts an item is the value of the
\* rule of highest priority among the quantity rules that match the line.
C21_QuantityByPriority ==
  \A n \in 1..line_num :
    (/\ strip(lines[n]) # ""
     /\ detection[strip(lines[n])].ok
     /\ Truthy(Get(detected[strip(lines[n])], "quantity")))
      => Get(detected[strip(lines[n])], "quantity") = value_by_priority(strip(lines[n]), 1)

\* A word of the line has the shape of a model number: letters, a hyphen
\* and digits, or one to three letters and two digits or more
is_model_shaped(w) == \E k \in DOMAIN model_patterns_in_line : search(model_patterns_in_line[k], w, TRUE).ok
\* The digits q stand in the word as a whole number
has_number(w, q) == search(Cat(<<NotBehind(Cls(Digit)), Str(q), NotAhead(Cls(Digit))>>), w, FALSE).ok
\* The number q stands in the line only inside model-shaped words
only_in_models(words, q) ==
  /\ \E j \in DOMAIN words : is_model_shaped(words[j]) /\ has_number(words[j], q)
  /\ \A j \in DOMAIN words : has_number(words[j], q) => is_model_shaped(words[j])
\* C22: the quantity of a line that starts an item is not a number that
\* stands in the line only inside model-shaped words, whichever word it is.
C22_QuantityNotFromModel ==
  \A n \in 1..line_num :
    (/\ strip(lines[n]) # ""
     /\ detection[strip(lines[n])].ok
     /\ Get(detected[strip(lines[n])], "quantity").t = "int")
      => ~only_in_models(split(strip(lines[n])), str(Get(detected[strip(lines[n])], "quantity")))
\* The text is in hyphenated title case: lower-casing it, joining its words
\* with single hyphens and capitalising them (lines 727 and 729) gives it back
hyphenated_title_case(mounting) == title(collapse_separators(lower(mounting))) = mounting
\* C23: every mounting_type that an item of extract_items holds is in
\* hyphenated title case, whether the line that started the item gave it
\* or a later line added it.
C23_MountingTypeNormalized ==
  \A i \in DOMAIN items :
    Truthy(Get(items[i], "mounting_type")) => hyphenated_title_case(Get(items[i], "mounting_type").s)

\* One text of an item, compared without regard to case ("" when absent)
text_of(item, f) == IF Truthy(Get(item, f)) THEN lower(Get(item, f).s) ELSE ""
\* One text is found inside the other
within(a, b) == \E i \in 1..(Len(b) - Len(a) + 1) : SubSeq(b, i, i + Len(a) - 1) = a
\* The points two texts earn: all of them when equal, half when one is
\* found inside the other
points(a, b, full) ==
  IF a = "" \/ b = "" THEN 0
  ELSE IF a = b THEN full
  ELSE IF within(a, b) \/ within(b, a) THEN full \div 2
  ELSE 0
\* +10 or +5 for the fixture type, +8 or +4 for the model number, +3 for
\* the page number
stated_score(regex_item, llm_item) ==
  points(text_of(regex_item, "fixture_type"), text_of(llm_item, "fixture_type"), 10)
    + points(text_of(regex_item, "model_number"), text_of(llm_item, "model_number"), 8)
    + (IF present(Get(regex_item, "page_number")) /\ Get(regex_item, "page_number") = Get(llm_item, "page_number")
       THEN 3 ELSE 0)
\* C24: the step of one regex item marks at most one external item used;
\* the marked item was unused, scores at least 3, and no unused item scores
\* higher; no item is marked only when no unused item scores at least 3.
C24_BestMatchByScore ==
  [][ (pc = "regex_items" /\ idx' = idx + 1)
      => LET regex_item == regex_items[idx + 1]
             unused == DOMAIN llm_items \ used_llm_indices
             matched == used_llm_indices' \ used_llm_indices
         IN /\ Cardinality(matched) <= 1
            /\ used_llm_indices \subseteq used_llm_indices'
            /\ \A j \in matched :
                 /\ j \in unused
                 /\ stated_score(regex_item, llm_items[j]) >= 3
                 /\ \A i \in unused : stated_score(regex_item, llm_items[i]) <= stated_score(regex_item, llm_items[j])
            /\ matched = {} => \A i \in unused : stated_score(regex_item, llm_items[i]) < 3 ]_vars
\* Two regex items were gone through: the first was matched on the page
\* number alone (3 points), the second found its only candidate used
C24_Witness ==
  /\ pc = "regex_items" /\ idx = 2 /\ used_llm_indices = {1} /\ Len(llm_items) = 1
  /\ stated_score(regex_items[1], llm_items[1]) = 3
  /\ stated_score(regex_items[2], llm_items[1]) >= 3

(***************************************************************************)
(* Properties of _merge_regex_and_llm_items                                *)
(***************************************************************************)
\* line 425
preserved_fields == {"page_number", "table_number", "row_number", "line_number", "raw_text"}
\* C25: the items appended so far by the first loop are, in order, those of
\* the regex items gone through, each with the page_number, table_number,
\* row_number, line_number and raw_text of its regex item; the list returned
\* starts with one item for every regex item.
C25_RegexItemsKeepProvenance ==
  /\ pc = "regex_items" => Len(merged_items) = idx
  /\ pc \in {"llm_items", "merged_returned"} => Len(merged_items) >= Len(regex_items)
  /\ pc \in {"regex_items", "llm_items", "merged_returned"} =>
       \A i \in DOMAIN regex_items :
         i <= Len(merged_items) => \A f \in preserved_fields : merged_items[i][f] = regex_items[i][f]
\* The merge returned: a table row and a text item were each merged with an
\* external item that carries provenance keys of its own, or none
C25_Witness ==
  /\ pc = "merged_returned" /\ Len(regex_items) = 2 /\ used_llm_indices = {1, 2}
  /\ regex_items[1].table_number = I(1)
  /\ \E j \in DOMAIN llm_items : llm_items[j].raw_text = S("Sink, 12")
  /\ merged_items[1] # regex_items[1] /\ merged_items[2] # regex_items[2]

\* The external items that were not merged and carry a page number or a
\* fixture type
discovered == {j \in DOMAIN llm_items : j \notin used_llm_indices
                 /\ (Truthy(Get(llm_items[j], "page_number")) \/ Truthy(Get(llm_items[j], "fixture_type")))}
\* What the returned list holds after the items of the regex items
appended_items == SubSeq(merged_items, Len(regex_items) + 1, Len(merged_items))
\* C26: the step of a regex item that has a match marks that external item,
\* which was not marked before, and no other; the list returned holds, after
\* the items of the regex items, the external items never marked that carry
\* a page_number or a fixture_type, in the order of the external list, and
\* no other external item.
C26_ExternalItemUsedOnce ==
  /\ [](pc = "merged_returned" =>
         /\ Len(appended_items) = Cardinality(discovered)
         /\ \A k \in DOMAIN appended_items : appended_items[k] = llm_items[nth(discovered, k)])
  /\ [][ (pc = "regex_items" /\ idx' = idx + 1) =>
           IF merged_items'[idx + 1] # regex_items[idx + 1]
           THEN \E j \in DOMAIN llm_items \ used_llm_indices :
                  /\ used_llm_indices' = used_llm_indices \cup {j}
                  /\ merged_items'[idx + 1] = _merge_item_data(regex_items[idx + 1], llm_items[j])
           ELSE Cardinality(used_llm_indices' \ used_llm_indices) <= 1 /\ used_llm_indices \subseteq used_llm_indices' ]_vars
\* The merge returned: the first external item was merged into a regex
\* item and is not appended, the second one was not merged and is appended
C26_Witness ==
  /\ pc = "merged_returned" /\ Len(regex_items) = 2 /\ Len(llm_items) = 2
  /\ used_llm_indices = {1} /\ merged_items[1] # regex_items[1]
  /\ Len(merged_items) = 3 /\ merged_items[3] = llm_items[2]

(***************************************************************************)
(* Properties of _enhance_with_llm                                         *)
(***************************************************************************)
\* C27: the enhancement is reported exactly when the merge appended an
\* external item or gave a regex item more filled fields than it had, and
\* then the merged items are taken; otherwise, a merge that only replaced
\* values included, no enhancement is reported and the regex items are kept
\* as they were.
C27_EnhancementReported ==
  [][ (pc = "enhance" /\ pc' = "validate") =>
        IF has_items(enhanced) /\ ~merge_raises(enhanced.items)
        THEN LET merged == _merge_regex_and_llm_items(all_items, enhanced.items)
             IN /\ llm_success' = (\/ Len(merged) > Len(all_items)
                                   \/ \E k \in DOMAIN all_items : filled_fields(merged[k]) > filled_fields(all_items[k]))
                /\ all_items' = IF llm_success' THEN merged ELSE all_items
        ELSE ~llm_success' /\ all_items' = all_items ]_vars
\* The response was merged and the merge replaced a value of a regex item
\* without filling a field or appending an item: no enhancement is reported
\* and the regex items are the ones kept
C27_Witness ==
  /\ pc = "validate" /\ llm_parser /\ ~llm_success
  /\ has_items(enhanced) /\ ~merge_raises(enhanced.items)
  /\ _merge_regex_and_llm_items(all_items, enhanced.items) # all_items

(***************************************************************************)
(* Properties of the header mapping of parse_tables                        *)
(***************************************************************************)
\* C28: in every table gone through, a header cell whose trimmed,
\* lower-cased text is a keyword listed for a field is mapped to that field
\* ("part number" and "item #" to model_number).
C28_KeywordHeaderMapsToItsField ==
  \A t \in 1..table_idx :
    Len(tables[t]) >= 2 =>
      \A col_idx \in DOMAIN tables[t][1] :
        \A k \in DOMAIN column_mapping :
          \A j \in DOMAIN column_mapping[k].keywords :
            header_of(tables[t][1][col_idx]) = column_mapping[k].keywords[j]
              => header_map(tables[t])[col_idx] = column_mapping[k].field

(***************************************************************************)
(* Properties of the spinner threads of PDFTextExtractor                   *)
(***************************************************************************)
\* extract_text has been left, by its return or by an exception
extract_text_ended == pc \in {"pages_returned", "read_raised"}
\* C29: when extract_text has been left, by a return or by an exception of
\* the reading of a page, the stop signal is set for every spinner thread
\* it started that has not ended.
C29_SpinnerStoppedOnEveryPath == (extract_text_ended /\ alive # {}) => _stop_spinner

\* C30: while the stop signal is clear, the only spinner thread that has
\* not ended is the one started last: the spinner of an earlier page does
\* not go on running beside the spinner of a later page.
C30_AtMostOneSpinnerRunning == ~_stop_spinner => \A k \in alive : k = _spinner_thread

Init == ItemsInit
Next == ItemsNext
Spec == Init /\ [][Next]_vars
====
